---- MODULE Spec2Model ----
(***************************************************************************)
(* Model of MediaProcessor (src/media_extractor.py): the construction of   *)
(* the processor and one call of process_annotation, step by step, over an *)
(* explicit file system.                                                   *)
(*                                                                         *)
(* Environment:                                                            *)
(*  - every ffmpeg invocation ends "ok" (exit 0, non-empty output),        *)
(*    "nonzero" (exit != 0, partial output left) or "zero" (exit 0 and a   *)
(*    zero-byte output);                                                   *)
(*  - ffprobe is a function of the probed file (no stream, no result);     *)
(*  - the renames process_annotation issues itself (shutil.move in a try   *)
(*    block with an OSError handler) succeed or raise OSError;             *)
(*  - os.remove of an existing file of the call succeeds, and so does the *)
(*    creation of a stage's temporary output (NamedTemporaryFile) in the   *)
(*    directory the extraction has just written to.                        *)
(***************************************************************************)
EXTENDS Integers, Sequences, FiniteSets, TLC

VARIABLES
    config,   \* the configuration object handed to the constructor
    self,     \* the MediaProcessor's fields
    arg,      \* the arguments of the process_annotation call
    fs,       \* the media output directory: path -> content
    loc,      \* the local variables of process_annotation
    pc,       \* the position of the call
    calls,    \* the ffmpeg invocations made so far, in order
    probes,   \* the number of ffprobe invocations made so far
    renames,  \* the renames process_annotation attempted itself, in order
    cascade_input,  \* the content of path_for_final_encode at line 513
    ret,      \* the value returned
    run       \* main's loop over the annotations: what is left to process

vars == <<config, self, arg, fs, loc, pc, calls, probes, renames, cascade_input, ret, run>>

-----------------------------------------------------------------------------
(* config.py *)

DEFAULT_VIDEO_CODEC == "h264"

ALLOWED_VIDEO_CODECS == {"h264", "vp9", "av1"}

PREFERRED_FORMATS(ext) ==
    CASE ext = ".mp4"  -> {"h264"}
      [] ext = ".webm" -> {"vp9", "av1"}
      [] OTHER         -> {}

CODEC_FORMAT_MAP(codec) ==
    CASE codec = "h264" -> [ext |-> ".mp4",  mime |-> "video/mp4",
                            container_opts |-> <<"-movflags", "+faststart">>]
      [] codec = "vp9"  -> [ext |-> ".webm", mime |-> "video/webm", container_opts |-> <<>>]
      [] codec = "av1"  -> [ext |-> ".webm", mime |-> "video/webm", container_opts |-> <<>>]

\* As FFMPEG_CODEC_OPTIONS_CPU, without the entry of h264.
FFMPEG_CODEC_OPTIONS_CPU_WebmOnly == {"vp9", "av1"}

FFMPEG_CODEC_OPTIONS_CPU == {"h264", "vp9", "av1"}

FFMPEG_CODEC_OPTIONS_VAAPI == {"h264", "vp9", "av1"}

MAX_PRE_RESIZE_WIDTH == 3840

MAX_PRE_RESIZE_HEIGHT == 2160

ENABLE_TRANSCODING == TRUE

MEDIA_OUTPUT_DIR_NAME == "videos"

-----------------------------------------------------------------------------
(* Values *)

None == "None"

OctetStream == "application/octet-stream"

\* A path of the media output directory: safe_base + stem + ext, where ext is
\* what os.path.splitext gives.
Path(base, stem, ext) == [base |-> base, stem |-> stem, ext |-> ext]

NoPath == Path("", "", "")

\* os.path.basename: the file's name in the media output directory
Basename(p) == p.base \o p.stem \o p.ext

NoInfo == [width |-> 0, height |-> 0, codec_name |-> None]

\* The content of a file: the stages that produced it from the extracted
\* stream (<<>> is the stream itself), what a probe and libmagic see in it, and
\* its size class.
Content(lineage, mime, codec, w, h, size) ==
    [lineage |-> lineage, mime |-> mime, codec |-> codec,
     width |-> w, height |-> h, size |-> size]

NoContent == Content(<<>>, None, None, 0, 0, "none")

Exists(f, p) == p \in DOMAIN f

WriteFile(f, p, c) == [q \in DOMAIN f \cup {p} |-> IF q = p THEN c ELSE f[q]]

RemoveFile(f, p) == [q \in DOMAIN f \ {p} |-> f[q]]

RemoveIfExists(f, p) == IF Exists(f, p) THEN RemoveFile(f, p) ELSE f

MoveFile(f, src, dst) == RemoveFile(WriteFile(f, dst, f[src]), src)

-----------------------------------------------------------------------------
(* Bounds of the model *)

\* The streams a document hands over: what libmagic and ffprobe see in them.
Streams ==
    { Content(<<>>, "video/mp4",       "h264",  1920, 1080, "full"),
      Content(<<>>, "video/mp4",       "h264",  7680, 4320, "full"),
      Content(<<>>, "video/quicktime", "h264",  3840, 2160, "full"),
      Content(<<>>, "video/webm",      "vp8",   1920, 1080, "full"),
      Content(<<>>, "video/webm",      "vp9",   1920, 1080, "full"),
      Content(<<>>, "video/x-msvideo", "mpeg4", 4096, 2160, "full"),
      Content(<<>>, "video/mp4",       None,    0,    0,    "full"),
      Content(<<>>, "image/png",       None,    0,    0,    "full"),
      Content(<<>>, OctetStream,       None,    0,    0,    "full") }

\* The content-type hints of the document
PdfContentTypes == {OctetStream, "video/mp4"}

CodecChoices == {None, "h264", "vp9", "av1", "xvid"}

ScalingInputs == {None, "50", "100", "150", "abc"}

EncoderOutcomes == {"ok", "nonzero", "zero"}

-----------------------------------------------------------------------------
(* MediaProcessor.__init__ *)

\* int(scaling_factor_input) for the inputs of the model
IntOf(s) ==
    CASE s = "50" -> 50 [] s = "100" -> 100 [] s = "150" -> 150 [] OTHER -> -1

_validate_and_set_scaling(scaling_factor_input) ==
    IF scaling_factor_input # None
          /\ IntOf(scaling_factor_input) >= 1
          /\ IntOf(scaling_factor_input) <= 100
    THEN IntOf(scaling_factor_input)
    ELSE 0   \* None

_determine_target_format(codec_choice_input) ==
    IF codec_choice_input # None /\ codec_choice_input \in ALLOWED_VIDEO_CODECS
    THEN codec_choice_input
    ELSE DEFAULT_VIDEO_CODEC

_validate_vaapi_request(use_vaapi_input, ffmpeg_path, linux) ==
    /\ use_vaapi_input
    /\ ffmpeg_path
    /\ linux
    /\ \E codec \in ALLOWED_VIDEO_CODECS : codec \in FFMPEG_CODEC_OPTIONS_VAAPI

MediaProcessorInit(cfg, ffmpeg_path, ffprobe_path, scaling_factor, use_vaapi, codec_choice, linux) ==
    [ffmpeg_path        |-> ffmpeg_path,
     ffprobe_path       |-> ffprobe_path,
     enable_transcoding |-> cfg.ENABLE_TRANSCODING /\ ffmpeg_path,
     user_codec_choice  |-> codec_choice,
     scaling_factor     |-> _validate_and_set_scaling(scaling_factor),
     target_codec       |-> _determine_target_format(codec_choice),
     target_extension   |-> CODEC_FORMAT_MAP(_determine_target_format(codec_choice)).ext,
     target_mime_type   |-> CODEC_FORMAT_MAP(_determine_target_format(codec_choice)).mime,
     target_container_opts |->
         CODEC_FORMAT_MAP(_determine_target_format(codec_choice)).container_opts,
     use_vaapi          |-> _validate_vaapi_request(use_vaapi, ffmpeg_path, linux)]

-----------------------------------------------------------------------------
(* Helpers of process_annotation *)

VAAPI_DECODABLE_CODECS == {"h264", "hevc", "vp9", "av1", "mpeg2video", "vc1"}

_get_file_extension_from_mime(mime_type) ==
    CASE mime_type = "video/mp4"       -> ".mp4"
      [] mime_type = "video/webm"      -> ".webm"
      [] mime_type = "video/quicktime" -> ".mov"
      [] mime_type = "video/x-msvideo" -> ".avi"
      [] mime_type = "image/png"       -> ".png"
      [] mime_type = OctetStream       -> ".bin"
      [] OTHER                         -> ".bin"

\* What ffprobe reports for a file: nothing without the tool, without the file,
\* or without a video stream that has width, height and codec.
\* As _get_video_info, without the test that ffprobe was found.
_get_video_info_without_tool_test(slf, f, input_path) ==
    IF Exists(f, input_path) /\ f[input_path].size = "full" /\ f[input_path].codec # None
    THEN [width |-> f[input_path].width, height |-> f[input_path].height,
          codec_name |-> f[input_path].codec]
    ELSE NoInfo

_get_video_info(slf, f, input_path) ==
    IF ~slf.ffprobe_path \/ ~Exists(f, input_path)
    THEN NoInfo
    ELSE IF f[input_path].size = "full" /\ f[input_path].codec # None
              /\ f[input_path].width > 0 /\ f[input_path].height > 0
         THEN [width |-> f[input_path].width, height |-> f[input_path].height,
               codec_name |-> f[input_path].codec]
         ELSE NoInfo

\* One more ffprobe invocation is made unless _get_video_info returns at once.
ProbeCount(slf, f, input_path) ==
    IF ~slf.ffprobe_path \/ ~Exists(f, input_path) THEN 0 ELSE 1

\* Lines 401-403; objgen is "<object>_<generation>", None without the attribute
stream_id_part(page_num, annot_index, objgen) ==
    IF objgen # None
    THEN objgen
    ELSE "p" \o ToString(page_num + 1) \o "a" \o ToString(annot_index + 1) \o "s"

\* As safe_base, built from the page and the stream alone.
safe_base_of_stream(page_num, annot_index, objgen) ==
    "slide_" \o ToString(page_num + 1) \o "_" \o stream_id_part(page_num, annot_index, objgen)

\* "slide_{page_num+1}_annot_{annot_index+1}_{stream_id_part}" with every
\* character outside [A-Za-z0-9_-] replaced by "_" (there is none)
safe_base(page_num, annot_index, objgen) ==
    "slide_" \o ToString(page_num + 1) \o "_annot_" \o ToString(annot_index + 1)
             \o "_" \o stream_id_part(page_num, annot_index, objgen)

\* round(a * b / c), as ffmpeg's av_rescale
Rescale(a, b, c) == (2 * a * b + c) \div (2 * c)

Min(a, b) == IF a <= b THEN a ELSE b

\* The size ffmpeg's scale filter gives for
\* scale=w='min(iw,trunc(max_w/2)*2)':h='min(ih,trunc(max_h/2)*2)':
\* force_original_aspect_ratio=decrease
PreResizeFilter(iw, ih, max_w, max_h) ==
    LET w0 == Min(iw, (max_w \div 2) * 2)
        h0 == Min(ih, (max_h \div 2) * 2)
    IN  [width  |-> Min(Rescale(h0, iw, ih), w0),
         height |-> Min(Rescale(w0, ih, iw), h0)]

\* The size of scale=w='trunc(iw*r/2)*2':h='trunc(ih*r/2)*2' for r = factor/100
ScaleFilter(iw, ih, factor) ==
    [width  |-> ((iw * factor) \div 200) * 2,
     height |-> ((ih * factor) \div 200) * 2]

\* The outcomes an ffmpeg run on a file can have: a file without a video
\* stream cannot be encoded.
OutcomesOn(f, input_path) ==
    IF Exists(f, input_path) /\ f[input_path].codec # None
          /\ f[input_path].size = "full"
    THEN EncoderOutcomes
    ELSE {"nonzero"}

\* What an ffmpeg run leaves at its output path.
EncoderOutput(in, stage, outcome, mime, codec, w, h) ==
    CASE outcome = "ok"      -> Content(Append(in.lineage, stage), mime, codec, w, h, "full")
      [] outcome = "nonzero" -> Content(Append(in.lineage, stage), OctetStream, None, 0, 0, "partial")
      [] outcome = "zero"    -> Content(Append(in.lineage, stage), OctetStream, None, 0, 0, "empty")

\* As EncodeSucceeded, on the return code alone.
EncodeSucceededOnExitCode(f, call) == call.outcome # "nonzero"

\* returncode == 0 and os.path.exists(out) and os.path.getsize(out) > 0
EncodeSucceeded(f, call) ==
    /\ call.outcome # "nonzero"
    /\ Exists(f, call.output)
    /\ f[call.output].size # "empty"

Call(stage, input, output, hw_init, hw_decode, hw_encode, vf, audio, vcodec, outcome) ==
    [stage |-> stage, input |-> input, output |-> output, hw_init |-> hw_init,
     hw_decode |-> hw_decode, hw_encode |-> hw_encode, vf |-> vf,
     audio |-> audio, vcodec |-> vcodec, outcome |-> outcome]

LastCall == calls[Len(calls)]

Rename(site, src, dst, ok) == [site |-> site, src |-> src, dst |-> dst, ok |-> ok]

NoneRecord ==
    [isNone |-> TRUE, pageIndex |-> 0, annotIndex |-> 0, outputPath |-> "",
     absolutePath |-> NoPath, contentTypeDetected |-> None, pdfRect |-> None]

-----------------------------------------------------------------------------
(* State after construction, before process_annotation is called *)

InitLocals ==
    [initial_absolute_temp_path |-> NoPath,
     current_path               |-> NoPath,
     video_info                 |-> NoInfo,
     source_codec               |-> None,
     resized                    |-> FALSE,
     temp_path                  |-> NoPath,
     detected_mime              |-> None,
     scaled_intermediate_path   |-> NoPath,
     path_for_final_encode      |-> NoPath,
     codec_for_final_encode     |-> None,
     ext_for_final_encode       |-> None,
     mime_for_final_encode      |-> None,
     final_transcode_needed     |-> FALSE,
     final_output_path          |-> NoPath,
     resulting_path             |-> NoPath,
     resulting_filename         |-> NoPath,
     resulting_mime             |-> None,
     intermediate_h264_file     |-> NoPath,
     final_encode_success       |-> FALSE,
     decode_vaapi_possible      |-> FALSE,
     encode_vaapi_possible      |-> FALSE,
     input_for_next_step        |-> NoPath,
     source_codec_for_next_step |-> None,
     attempt_decode_vaapi_next_step |-> FALSE]

\* The processors that can be constructed over a configuration object
Processors(cfg) ==
    { MediaProcessorInit(cfg, ffmpeg_path, ffprobe_path, scaling_factor,
                         use_vaapi, codec_choice, linux) :
        ffmpeg_path \in BOOLEAN, ffprobe_path \in BOOLEAN,
        scaling_factor \in ScalingInputs, use_vaapi \in BOOLEAN,
        codec_choice \in CodecChoices, linux \in BOOLEAN }

\* config.py as shipped
ShippedConfig ==
    [ENABLE_TRANSCODING    |-> ENABLE_TRANSCODING,
     MAX_PRE_RESIZE_WIDTH  |-> MAX_PRE_RESIZE_WIDTH,
     MAX_PRE_RESIZE_HEIGHT |-> MAX_PRE_RESIZE_HEIGHT,
     FFMPEG_CODEC_OPTIONS_CPU |-> FFMPEG_CODEC_OPTIONS_CPU]

\* An annotation as find_media_annotations reports it, and as main passes it
\* to process_annotation (main.py, lines 345-351)
Annotation(page_num, annot_index, objgen, pdf_rect, stream_ref) ==
    [page_num |-> page_num, annot_index |-> annot_index, objgen |-> objgen,
     pdf_rect |-> pdf_rect, stream_ref |-> stream_ref]

\* main has no further annotation to process
NoRun == [todo |-> <<>>, touched |-> {}, prev |-> <<>>]

InitCall ==
    /\ arg \in { Annotation(0, 0, "7_0", "rect", s) : s \in Streams }
    /\ run = NoRun
    /\ fs = <<>>
    /\ loc = InitLocals
    /\ pc = "start"
    /\ calls = <<>>
    /\ probes = 0
    /\ renames = <<>>
    /\ cascade_input = NoContent
    /\ ret = NoneRecord

Init ==
    /\ config = ShippedConfig
    /\ self \in Processors(config)
    /\ InitCall

-----------------------------------------------------------------------------
(* process_annotation, lines 391-423: extraction *)

Extract ==
    /\ pc = "start"
    /\ LET base == safe_base(arg.page_num, arg.annot_index, arg.objgen)
           tmp  == Path(base, ".tmp", ".bin")
       IN \/ \* read_bytes raises or the stream is empty; makedirs or open raises
             /\ fs' = fs /\ loc' = loc /\ pc' = "done"
          \/ \* f.write raises OSError: the file was created
             /\ fs' = WriteFile(fs, tmp, [arg.stream_ref EXCEPT !.size = "partial"])
             /\ loc' = [loc EXCEPT !.initial_absolute_temp_path = tmp]
             /\ pc' = "done"
          \/ /\ fs' = WriteFile(fs, tmp, arg.stream_ref)
             /\ loc' = [loc EXCEPT !.initial_absolute_temp_path = tmp,
                                   !.current_path = tmp]
             /\ pc' = "identify"
    /\ ret' = NoneRecord
    /\ UNCHANGED <<run, config, self, arg, calls, probes, renames, cascade_input>>

-----------------------------------------------------------------------------
(* _perform_pre_resize, lines 255-325, with the probe of lines 426-428 *)

\* As PreResizeSkipped, without the test that ffmpeg was found.
PreResizeSkippedIgnoringEngine(slf, cfg, video_info) ==
    \/ video_info = NoInfo
    \/ cfg.MAX_PRE_RESIZE_WIDTH = 0
    \/ cfg.MAX_PRE_RESIZE_HEIGHT = 0
    \/ /\ video_info.width <= cfg.MAX_PRE_RESIZE_WIDTH
       /\ video_info.height <= cfg.MAX_PRE_RESIZE_HEIGHT

\* As PreResizeSkipped, with a video at the ceilings taken as above them.
PreResizeSkippedStrict(slf, cfg, video_info) ==
    \/ ~slf.ffmpeg_path
    \/ video_info = NoInfo
    \/ cfg.MAX_PRE_RESIZE_WIDTH = 0
    \/ cfg.MAX_PRE_RESIZE_HEIGHT = 0
    \/ /\ video_info.width < cfg.MAX_PRE_RESIZE_WIDTH
       /\ video_info.height < cfg.MAX_PRE_RESIZE_HEIGHT

\* Lines 257-266: the stage returns at once, (False, input_path)
PreResizeSkipped(slf, cfg, video_info) ==
    \/ ~slf.ffmpeg_path
    \/ video_info = NoInfo
    \/ cfg.MAX_PRE_RESIZE_WIDTH = 0
    \/ cfg.MAX_PRE_RESIZE_HEIGHT = 0
    \/ /\ video_info.width <= cfg.MAX_PRE_RESIZE_WIDTH
       /\ video_info.height <= cfg.MAX_PRE_RESIZE_HEIGHT

\* tempfile.NamedTemporaryFile(dir=input_dir, prefix=input_base + "_",
\* suffix=".preresize.mp4"): a name no file has
PreResizeTemp(input_path) ==
    Path(input_path.base, input_path.stem \o "_XXXX.preresize", ".mp4")

Identify ==
    /\ pc = "identify"
    /\ LET info == _get_video_info(self, fs, loc.current_path)
           temp == PreResizeTemp(loc.current_path)
           size == PreResizeFilter(info.width, info.height,
                                   config.MAX_PRE_RESIZE_WIDTH,
                                   config.MAX_PRE_RESIZE_HEIGHT)
       IN /\ probes' = probes + ProbeCount(self, fs, loc.current_path)
          /\ IF PreResizeSkipped(self, config, info)
             THEN /\ loc' = [loc EXCEPT !.video_info = info,
                                        !.source_codec = info.codec_name,
                                        !.resized = FALSE]
                  /\ UNCHANGED <<fs, calls>>
                  /\ pc' = "mime"
             ELSE \E outcome \in OutcomesOn(fs, loc.current_path) :
                  /\ loc' = [loc EXCEPT !.video_info = info,
                                        !.source_codec = info.codec_name,
                                        !.temp_path = temp]
                  /\ fs' = WriteFile(fs, temp,
                              EncoderOutput(fs[loc.current_path], "preresize", outcome,
                                            "video/mp4", "h264", size.width, size.height))
                  /\ calls' = Append(calls,
                                Call("preresize", loc.current_path, temp, FALSE, FALSE,
                                     FALSE, "scale_bicubic", "copy", "libx264", outcome))
                  /\ pc' = "preresize_done"
    /\ UNCHANGED <<run, config, self, arg, ret, renames, cascade_input>>

\* As PreResizeDone, leaving the output of a failed run where it is.
PreResizeDoneKeepsTemp ==
    /\ pc = "preresize_done"
    /\ LET ok  == EncodeSucceeded(fs, LastCall)
           fs1 == IF ok THEN MoveFile(fs, loc.temp_path, loc.current_path) ELSE fs
           info == _get_video_info(self, fs1, loc.current_path)
       IN /\ fs' = fs1
          /\ IF ok
             THEN /\ loc' = [loc EXCEPT !.resized = TRUE, !.video_info = info,
                                        !.source_codec = info.codec_name,
                                        !.temp_path = NoPath]
                  /\ probes' = probes + ProbeCount(self, fs1, loc.current_path)
             ELSE /\ loc' = [loc EXCEPT !.resized = FALSE, !.temp_path = NoPath]
                  /\ probes' = probes
    /\ pc' = "mime"
    /\ UNCHANGED <<run, config, self, arg, calls, ret, renames, cascade_input>>

\* As PreResizeDone, moving the output over the working file before the
\* test of the result.
PreResizeDoneMovesFirst ==
    /\ pc = "preresize_done"
    /\ LET ok  == EncodeSucceeded(fs, LastCall)
           fs1 == MoveFile(fs, loc.temp_path, loc.current_path)
           info == _get_video_info(self, fs1, loc.current_path)
       IN /\ fs' = fs1
          /\ IF ok
             THEN /\ loc' = [loc EXCEPT !.resized = TRUE, !.video_info = info,
                                        !.source_codec = info.codec_name,
                                        !.temp_path = NoPath]
                  /\ probes' = probes + ProbeCount(self, fs1, loc.current_path)
             ELSE /\ loc' = [loc EXCEPT !.resized = FALSE, !.temp_path = NoPath]
                  /\ probes' = probes
    /\ pc' = "mime"
    /\ UNCHANGED <<run, config, self, arg, calls, ret, renames, cascade_input>>

\* Lines 301-325 and 430-432
PreResizeDone ==
    /\ pc = "preresize_done"
    /\ LET ok  == EncodeSucceeded(fs, LastCall)
           fs1 == IF ok THEN MoveFile(fs, loc.temp_path, loc.current_path)
                        ELSE RemoveIfExists(fs, loc.temp_path)
           info == _get_video_info(self, fs1, loc.current_path)
       IN /\ fs' = fs1
          /\ IF ok
             THEN /\ loc' = [loc EXCEPT !.resized = TRUE, !.video_info = info,
                                        !.source_codec = info.codec_name,
                                        !.temp_path = NoPath]
                  /\ probes' = probes + ProbeCount(self, fs1, loc.current_path)
             ELSE /\ loc' = [loc EXCEPT !.resized = FALSE, !.temp_path = NoPath]
                  /\ probes' = probes
    /\ pc' = "mime"
    /\ UNCHANGED <<run, config, self, arg, calls, ret, renames, cascade_input>>

-----------------------------------------------------------------------------
(* process_annotation, lines 433-477: MIME detection and first rename *)

\* Lines 434-451. magic_mime is what libmagic says, None when python-magic is
\* unavailable or raises.
DetectMime(magic_mime, content_type_pdf) ==
    IF magic_mime # None /\ magic_mime # OctetStream
    THEN magic_mime
    ELSE IF content_type_pdf # None /\ content_type_pdf # OctetStream
         THEN content_type_pdf
         ELSE OctetStream

IsVideo(mime) == mime \in {"video/mp4", "video/webm", "video/quicktime", "video/x-msvideo"}

\* Lines 452-470
MimeAndRename ==
    /\ pc = "mime"
    /\ \E magic_mime \in {fs[loc.current_path].mime, None},
          content_type_pdf \in PdfContentTypes,
          rename_ok \in BOOLEAN :
        LET detected == DetectMime(magic_mime, content_type_pdf)
            guess == Path(loc.current_path.base, "", _get_file_extension_from_mime(detected))
            moved == loc.current_path # guess /\ rename_ok
            fs1 == IF moved
                   THEN MoveFile(RemoveIfExists(fs, guess), loc.current_path, guess)
                   ELSE fs
            cur == IF moved THEN guess ELSE loc.current_path
            reprobe == loc.video_info = NoInfo \/ loc.resized
            info == IF reprobe THEN _get_video_info(self, fs1, cur) ELSE loc.video_info
        IN /\ fs' = fs1
           /\ loc' = [loc EXCEPT !.detected_mime = detected,
                                 !.current_path = cur,
                                 !.video_info = info,
                                 !.source_codec = info.codec_name]
           /\ probes' = probes + IF reprobe THEN ProbeCount(self, fs1, cur) ELSE 0
           /\ renames' = IF loc.current_path # guess
                         THEN Append(renames, Rename("mime", loc.current_path, guess, rename_ok))
                         ELSE renames
    /\ pc' = "check_video"
    /\ UNCHANGED <<run, config, self, arg, calls, ret, cascade_input>>

\* Lines 471-477
CheckVideo ==
    /\ pc = "check_video"
    /\ IF ~IsVideo(loc.detected_mime)
       THEN /\ fs' = IF loc.initial_absolute_temp_path # loc.current_path
                     THEN RemoveIfExists(fs, loc.initial_absolute_temp_path)
                     ELSE fs
            /\ pc' = "done"
       ELSE /\ fs' = fs
            /\ pc' = "scaling"
    /\ ret' = NoneRecord
    /\ UNCHANGED <<run, config, self, arg, loc, calls, probes, renames, cascade_input>>

-----------------------------------------------------------------------------
(* process_annotation, lines 479-511, and _perform_scaling_step, 737-790 *)

ScaledPath(base) == Path(base, ".scale_hq_inter", ".mp4")

\* As NeedsScaling, with the comparison to 100 turned around.
NeedsScalingOnlyFull(slf) == slf.scaling_factor # 0 /\ slf.scaling_factor = 100

\* Line 486
NeedsScaling(slf) == slf.scaling_factor # 0 /\ slf.scaling_factor # 100

\* Lines 481-493 and 742-769
Scaling ==
    /\ pc = "scaling"
    /\ LET loc1 == [loc EXCEPT !.scaled_intermediate_path = NoPath,
                               !.path_for_final_encode = loc.current_path,
                               !.codec_for_final_encode = loc.source_codec,
                               !.ext_for_final_encode = loc.current_path.ext,
                               !.mime_for_final_encode = loc.detected_mime]
           out  == ScaledPath(loc.current_path.base)
           in   == fs[loc.current_path]
           size == ScaleFilter(in.width, in.height, self.scaling_factor)
       IN IF NeedsScaling(self) /\ IsVideo(loc.detected_mime) /\ self.enable_transcoding
          THEN IF ~self.ffmpeg_path \/ self.scaling_factor = 0
               THEN /\ loc' = [loc1 EXCEPT !.scaled_intermediate_path = out]
                    /\ UNCHANGED <<fs, calls>>
                    /\ pc' = "scaling_done"
               ELSE \E outcome \in OutcomesOn(fs, loc.current_path) :
                    /\ loc' = [loc1 EXCEPT !.scaled_intermediate_path = out]
                    /\ fs' = WriteFile(fs, out,
                                EncoderOutput(in, "scale", outcome, "video/mp4", "h264",
                                              size.width, size.height))
                    /\ calls' = Append(calls,
                                  Call("scale", loc.current_path, out, FALSE, FALSE, FALSE,
                                       "scale_lanczos", "copy", "libx264", outcome))
                    /\ pc' = "scaling_done"
          ELSE /\ loc' = loc1
               /\ UNCHANGED <<fs, calls>>
               /\ pc' = "decide"
    /\ UNCHANGED <<run, config, self, arg, probes, ret, renames, cascade_input>>

\* As ScalingDone, with the bookkeeping of the scaled file set before the
\* result of the step is known.
ScalingDoneBooksFirst ==
    /\ pc = "scaling_done"
    /\ LET out == loc.scaled_intermediate_path
           scale_ok == /\ calls # <<>>
                       /\ LastCall.stage = "scale"
                       /\ EncodeSucceeded(fs, LastCall)
       IN IF scale_ok
          THEN /\ loc' = [loc EXCEPT !.path_for_final_encode = out,
                                     !.codec_for_final_encode = "h264",
                                     !.ext_for_final_encode = ".mp4",
                                     !.mime_for_final_encode = "video/mp4"]
               /\ fs' = IF loc.current_path # loc.initial_absolute_temp_path
                        THEN RemoveIfExists(fs, loc.current_path)
                        ELSE fs
          ELSE /\ loc' = [loc EXCEPT !.scaled_intermediate_path = NoPath,
                                     !.codec_for_final_encode = "h264",
                                     !.ext_for_final_encode = ".mp4",
                                     !.mime_for_final_encode = "video/mp4"]
               /\ fs' = RemoveIfExists(fs, out)
    /\ pc' = "decide"
    /\ UNCHANGED <<run, config, self, arg, calls, probes, ret, renames, cascade_input>>

\* As ScalingDone, with the codec and container of the source kept in the
\* bookkeeping.
ScalingDoneKeepsSourceFormat ==
    /\ pc = "scaling_done"
    /\ LET out == loc.scaled_intermediate_path
           scale_ok == /\ calls # <<>>
                       /\ LastCall.stage = "scale"
                       /\ EncodeSucceeded(fs, LastCall)
       IN IF scale_ok
          THEN /\ loc' = [loc EXCEPT !.path_for_final_encode = out]
               /\ fs' = IF loc.current_path # loc.initial_absolute_temp_path
                        THEN RemoveIfExists(fs, loc.current_path)
                        ELSE fs
          ELSE /\ loc' = [loc EXCEPT !.scaled_intermediate_path = NoPath]
               /\ fs' = RemoveIfExists(fs, out)
    /\ pc' = "decide"
    /\ UNCHANGED <<run, config, self, arg, calls, probes, ret, renames, cascade_input>>

\* Lines 770-790 and 494-511
ScalingDone ==
    /\ pc = "scaling_done"
    /\ LET out == loc.scaled_intermediate_path
           scale_ok == /\ calls # <<>>
                       /\ LastCall.stage = "scale"
                       /\ EncodeSucceeded(fs, LastCall)
       IN IF scale_ok
          THEN /\ loc' = [loc EXCEPT !.path_for_final_encode = out,
                                     !.codec_for_final_encode = "h264",
                                     !.ext_for_final_encode = ".mp4",
                                     !.mime_for_final_encode = "video/mp4"]
               /\ fs' = IF loc.current_path # loc.initial_absolute_temp_path
                        THEN RemoveIfExists(fs, loc.current_path)
                        ELSE fs
          ELSE /\ loc' = [loc EXCEPT !.scaled_intermediate_path = NoPath]
               /\ fs' = RemoveIfExists(fs, out)
    /\ pc' = "decide"
    /\ UNCHANGED <<run, config, self, arg, calls, probes, ret, renames, cascade_input>>

-----------------------------------------------------------------------------
(* process_annotation, lines 513-563: is a final encode required? *)

\* As IsPreferredFormat, whatever the container of the codec.
IsPreferredFormatAnyContainer(ext, codec) ==
    codec \in PREFERRED_FORMATS(".mp4") \cup PREFERRED_FORMATS(".webm")

\* Lines 517-520
IsPreferredFormat(ext, codec) == codec \in PREFERRED_FORMATS(ext)

\* Lines 524-530
ExplicitChange(slf, ext, codec) ==
    /\ slf.user_codec_choice # None
    /\ LET requested_ext == IF slf.user_codec_choice \in ALLOWED_VIDEO_CODECS
                            THEN CODEC_FORMAT_MAP(slf.user_codec_choice).ext
                            ELSE ".err"
       IN slf.user_codec_choice # codec \/ requested_ext # ext

\* As FinalTranscodeNeeded, comparing with the target format instead of the
\* user's choice.
FinalTranscodeNeededForTarget(slf, ext, codec) ==
    \/ ~IsPreferredFormat(ext, codec)
    \/ slf.target_codec # codec
    \/ slf.target_extension # ext

\* As FinalTranscodeNeeded, for every file.
FinalTranscodeNeededAlways(slf, ext, codec) == TRUE

\* Lines 515-530
FinalTranscodeNeeded(slf, ext, codec) ==
    ~IsPreferredFormat(ext, codec) \/ ExplicitChange(slf, ext, codec)

\* As DecodeVaapiPossible, for every file when acceleration is enabled.
DecodeVaapiPossibleUnprobed(slf, codec) == slf.use_vaapi

\* As EncodeVaapiPossible, without the test that acceleration is enabled.
EncodeVaapiPossibleWhenDisabled(slf) == slf.target_codec \in FFMPEG_CODEC_OPTIONS_VAAPI

\* As DecodeVaapiPossible, without the test of the decodable codecs.
DecodeVaapiPossibleAnyCodec(slf, codec) == slf.use_vaapi /\ codec # None

\* Lines 550-553
DecodeVaapiPossible(slf, codec) ==
    slf.use_vaapi /\ codec # None /\ codec \in VAAPI_DECODABLE_CODECS

\* Lines 554-557
EncodeVaapiPossible(slf) ==
    slf.use_vaapi /\ slf.target_codec \in FFMPEG_CODEC_OPTIONS_VAAPI

\* As Decide, with the container of the item taken over as the target
\* container of the processor.
DecideRetargets ==
    /\ pc = "decide"
    /\ LET needed == FinalTranscodeNeeded(self, loc.ext_for_final_encode,
                                           loc.codec_for_final_encode)
           dec == DecodeVaapiPossible(self, loc.codec_for_final_encode)
           enc == EncodeVaapiPossible(self)
           final == Path(loc.path_for_final_encode.base, "", self.target_extension)
       IN /\ loc' = [loc EXCEPT !.final_transcode_needed = needed,
                                !.final_output_path = final,
                                !.resulting_path = loc.path_for_final_encode,
                                !.resulting_filename = loc.path_for_final_encode,
                                !.resulting_mime = loc.mime_for_final_encode,
                                !.intermediate_h264_file = NoPath,
                                !.final_encode_success = FALSE,
                                !.decode_vaapi_possible = needed /\ self.enable_transcoding /\ dec,
                                !.encode_vaapi_possible = needed /\ self.enable_transcoding /\ enc,
                                !.input_for_next_step = loc.path_for_final_encode,
                                !.source_codec_for_next_step = loc.codec_for_final_encode,
                                !.attempt_decode_vaapi_next_step =
                                    needed /\ self.enable_transcoding /\ dec]
          /\ pc' = IF needed /\ self.enable_transcoding
                   THEN IF enc THEN IF dec THEN "attempt1" ELSE "intermediate"
                               ELSE "cpu"
                   ELSE "no_transcode"
    /\ cascade_input' = fs[loc.path_for_final_encode]
    /\ self' = [self EXCEPT !.target_extension = loc.ext_for_final_encode]
    /\ UNCHANGED <<run, config, arg, fs, calls, probes, ret, renames>>

\* Lines 513-557
Decide ==
    /\ pc = "decide"
    /\ LET needed == FinalTranscodeNeeded(self, loc.ext_for_final_encode,
                                           loc.codec_for_final_encode)
           dec == DecodeVaapiPossible(self, loc.codec_for_final_encode)
           enc == EncodeVaapiPossible(self)
           final == Path(loc.path_for_final_encode.base, "", self.target_extension)
       IN /\ loc' = [loc EXCEPT !.final_transcode_needed = needed,
                                !.final_output_path = final,
                                !.resulting_path = loc.path_for_final_encode,
                                !.resulting_filename = loc.path_for_final_encode,
                                !.resulting_mime = loc.mime_for_final_encode,
                                !.intermediate_h264_file = NoPath,
                                !.final_encode_success = FALSE,
                                !.decode_vaapi_possible = needed /\ self.enable_transcoding /\ dec,
                                !.encode_vaapi_possible = needed /\ self.enable_transcoding /\ enc,
                                !.input_for_next_step = loc.path_for_final_encode,
                                !.source_codec_for_next_step = loc.codec_for_final_encode,
                                !.attempt_decode_vaapi_next_step =
                                    needed /\ self.enable_transcoding /\ dec]
          /\ pc' = IF needed /\ self.enable_transcoding
                   THEN IF enc THEN IF dec THEN "attempt1" ELSE "intermediate"
                               ELSE "cpu"
                   ELSE "no_transcode"
    /\ cascade_input' = fs[loc.path_for_final_encode]
    /\ UNCHANGED <<run, config, self, arg, fs, calls, probes, ret, renames>>

-----------------------------------------------------------------------------
(* _perform_final_encode_step, lines 793-954 *)

\* As FinalEncodeTemp, with the final output path itself as the output of
\* the encoder.
FinalEncodeInPlace(final_output_path, use_vaapi_for_encode_attempt) == final_output_path

\* tempfile.NamedTemporaryFile(dir=final_dir,
\* prefix=final_base + "_final_" + attempt_type + "_", suffix=final_ext)
FinalEncodeTemp(final_output_path, use_vaapi_for_encode_attempt) ==
    Path(final_output_path.base,
         IF use_vaapi_for_encode_attempt THEN "_final_vaapi_XXXX" ELSE "_final_cpu_XXXX",
         final_output_path.ext)

\* Line 840
HwDecodeActive(attempt_vaapi_decode, source_codec_name) ==
    attempt_vaapi_decode /\ source_codec_name \in VAAPI_DECODABLE_CODECS

\* Lines 854-877
VideoFilter(target_codec, hw_decode_active, use_vaapi_for_encode_attempt) ==
    IF use_vaapi_for_encode_attempt
    THEN IF ~hw_decode_active THEN "format=nv12"
                              ELSE "hwupload,scale_vaapi=format=nv12"
    ELSE IF hw_decode_active THEN "hwdownload,format=yuv420p"
         ELSE IF target_codec = "av1" THEN "format=yuv420p" ELSE ""

\* As AudioOptions, with AAC for every container.
AudioOptionsAacOnly(final_output_path) == "aac_128k"

\* Lines 902-910
AudioOptions(final_output_path) ==
    IF final_output_path.ext = ".webm" THEN "libopus_96k" ELSE "aac_128k"

\* Lines 882-897: no encoder options for the target codec, a ValueError is
\* raised, outside any try block of the class
CodecOptionsMissing(target_codec, use_vaapi_for_encode_attempt) ==
    IF use_vaapi_for_encode_attempt
    THEN target_codec \notin FFMPEG_CODEC_OPTIONS_VAAPI
    ELSE target_codec \notin config.FFMPEG_CODEC_OPTIONS_CPU

\* Where the call goes on after _perform_final_encode_step: "raised" when the
\* ValueError leaves process_annotation
AfterEncodeRun(use_vaapi_for_encode_attempt, pc_next) ==
    IF CodecOptionsMissing(self.target_codec, use_vaapi_for_encode_attempt)
    THEN "raised"
    ELSE pc_next

\* Lines 805-925: the temporary output is created and ffmpeg is run on it.
FinalEncodeRun(stage, input_path, source_codec_name, attempt_vaapi_decode, use_vaapi_for_encode_attempt) ==
    LET temp == FinalEncodeTemp(loc.final_output_path, use_vaapi_for_encode_attempt)
        hw_decode_active == HwDecodeActive(attempt_vaapi_decode, source_codec_name)
        in == fs[input_path]
    IN IF CodecOptionsMissing(self.target_codec, use_vaapi_for_encode_attempt)
       THEN /\ fs' = WriteFile(fs, temp, Content(<<stage>>, OctetStream, None, 0, 0, "empty"))
            /\ calls' = calls
            /\ loc' = [loc EXCEPT !.temp_path = temp]
       ELSE
       \E outcome \in OutcomesOn(fs, input_path) :
         /\ fs' = WriteFile(fs, temp,
                     EncoderOutput(in, stage, outcome, self.target_mime_type,
                                   self.target_codec, in.width, in.height))
         /\ calls' = Append(calls,
                       Call(stage, input_path, temp,
                            attempt_vaapi_decode \/ use_vaapi_for_encode_attempt,
                            hw_decode_active, use_vaapi_for_encode_attempt,
                            VideoFilter(self.target_codec, hw_decode_active,
                                        use_vaapi_for_encode_attempt),
                            AudioOptions(loc.final_output_path),
                            <<self.target_codec,
                              IF use_vaapi_for_encode_attempt THEN "vaapi" ELSE "cpu">>,
                            outcome))
         /\ loc' = [loc EXCEPT !.temp_path = temp]

\* As FinalEncodeFinish, with the input of a failed attempt removed together
\* with its output.
FinalEncodeFinishRemovesInput(f, call, final_output_path) ==
    IF EncodeSucceeded(f, call)
    THEN MoveFile(f, call.output, final_output_path)
    ELSE RemoveIfExists(RemoveIfExists(f, call.output), call.input)

\* Lines 926-954: the result is moved to the final path, or the temporary
\* output is removed. The value is the file system afterwards.
FinalEncodeFinish(f, call, final_output_path) ==
    IF EncodeSucceeded(f, call)
    THEN MoveFile(f, call.output, final_output_path)
    ELSE RemoveIfExists(f, call.output)

-----------------------------------------------------------------------------
(* process_annotation, lines 564-650: the cascade *)

IntermediatePath(base) == Path(base, ".inter_h264", ".mp4")

\* Lines 567-576
Attempt1 ==
    /\ pc = "attempt1"
    /\ FinalEncodeRun("attempt1", loc.input_for_next_step,
                      loc.source_codec_for_next_step, TRUE, TRUE)
    /\ pc' = AfterEncodeRun(TRUE, "attempt1_done")
    /\ UNCHANGED <<run, config, self, arg, probes, ret, renames, cascade_input>>

\* As Attempt1Done, going on to the intermediate after a success too.
Attempt1DoneGoesOn ==
    /\ pc = "attempt1_done"
    /\ fs' = FinalEncodeFinish(fs, LastCall, loc.final_output_path)
    /\ loc' = [loc EXCEPT !.final_encode_success = EncodeSucceeded(fs, LastCall),
                          !.temp_path = NoPath]
    /\ pc' = "intermediate"
    /\ UNCHANGED <<run, config, self, arg, calls, probes, ret, renames, cascade_input>>

\* Lines 577-584
Attempt1Done ==
    /\ pc = "attempt1_done"
    /\ fs' = FinalEncodeFinish(fs, LastCall, loc.final_output_path)
    /\ loc' = [loc EXCEPT !.final_encode_success = EncodeSucceeded(fs, LastCall),
                          !.temp_path = NoPath]
    /\ pc' = IF EncodeSucceeded(fs, LastCall) THEN "update" ELSE "intermediate"
    /\ UNCHANGED <<run, config, self, arg, calls, probes, ret, renames, cascade_input>>

\* Lines 591-598 and 333-358
Intermediate ==
    /\ pc = "intermediate"
    /\ LET out == IntermediatePath(loc.path_for_final_encode.base)
           in  == fs[loc.path_for_final_encode]
       IN \E outcome \in OutcomesOn(fs, loc.path_for_final_encode) :
            /\ fs' = WriteFile(fs, out,
                        EncoderOutput(in, "intermediate", outcome, "video/mp4", "h264",
                                      in.width, in.height))
            /\ calls' = Append(calls,
                          Call("intermediate", loc.path_for_final_encode, out, FALSE,
                               FALSE, FALSE, "", "copy", "libx264", outcome))
            /\ loc' = [loc EXCEPT !.intermediate_h264_file = out]
    /\ pc' = "intermediate_done"
    /\ UNCHANGED <<run, config, self, arg, probes, ret, renames, cascade_input>>

\* Lines 359-379 and 600-626
IntermediateDone ==
    /\ pc = "intermediate_done"
    /\ IF EncodeSucceeded(fs, LastCall)
       THEN /\ fs' = fs
            /\ loc' = [loc EXCEPT !.input_for_next_step = loc.intermediate_h264_file,
                                  !.source_codec_for_next_step = "h264",
                                  !.attempt_decode_vaapi_next_step = TRUE]
            /\ pc' = "attempt2"
       ELSE /\ fs' = RemoveIfExists(fs, LastCall.output)
            /\ loc' = [loc EXCEPT !.input_for_next_step = loc.path_for_final_encode,
                                  !.source_codec_for_next_step = loc.codec_for_final_encode,
                                  !.attempt_decode_vaapi_next_step = loc.decode_vaapi_possible]
            /\ pc' = "cpu"
    /\ UNCHANGED <<run, config, self, arg, calls, probes, ret, renames, cascade_input>>

\* As Attempt2, on the cascade's input with the decode decision taken for it.
Attempt2FromCascadeInput ==
    /\ pc = "attempt2"
    /\ FinalEncodeRun("attempt2", loc.path_for_final_encode,
                      loc.codec_for_final_encode,
                      loc.decode_vaapi_possible, TRUE)
    /\ pc' = AfterEncodeRun(TRUE, "attempt2_done")
    /\ UNCHANGED <<run, config, self, arg, probes, ret, renames, cascade_input>>

\* Lines 606-615
Attempt2 ==
    /\ pc = "attempt2"
    /\ FinalEncodeRun("attempt2", loc.input_for_next_step,
                      loc.source_codec_for_next_step,
                      loc.attempt_decode_vaapi_next_step, TRUE)
    /\ pc' = AfterEncodeRun(TRUE, "attempt2_done")
    /\ UNCHANGED <<run, config, self, arg, probes, ret, renames, cascade_input>>

\* Lines 616-620
Attempt2Done ==
    /\ pc = "attempt2_done"
    /\ fs' = FinalEncodeFinish(fs, LastCall, loc.final_output_path)
    /\ loc' = [loc EXCEPT !.final_encode_success = EncodeSucceeded(fs, LastCall),
                          !.temp_path = NoPath]
    /\ pc' = IF EncodeSucceeded(fs, LastCall) THEN "update" ELSE "cpu"
    /\ UNCHANGED <<run, config, self, arg, calls, probes, ret, renames, cascade_input>>

\* As CpuInputPath, always the cascade's input.
CpuInputPathOriginal(f, l) == l.path_for_final_encode

\* Line 631
CpuInputPath(f, l) ==
    IF l.intermediate_h264_file # NoPath /\ Exists(f, l.intermediate_h264_file)
    THEN l.intermediate_h264_file
    ELSE l.path_for_final_encode

\* Line 632
CpuSourceCodec(f, l) ==
    IF CpuInputPath(f, l) = l.intermediate_h264_file
    THEN "h264"
    ELSE l.codec_for_final_encode

\* Line 633
CpuAttemptDecode(f, l) ==
    IF CpuSourceCodec(f, l) = "h264" THEN TRUE ELSE l.decode_vaapi_possible

\* Lines 629-646
CpuFallback ==
    /\ pc = "cpu"
    /\ FinalEncodeRun("cpu", CpuInputPath(fs, loc), CpuSourceCodec(fs, loc),
                      CpuAttemptDecode(fs, loc), FALSE)
    /\ pc' = AfterEncodeRun(FALSE, "cpu_done")
    /\ UNCHANGED <<run, config, self, arg, probes, ret, renames, cascade_input>>

\* As CpuFallbackDone, with the fallback tried again after a failure.
CpuFallbackDoneRetries ==
    /\ pc = "cpu_done"
    /\ fs' = FinalEncodeFinish(fs, LastCall, loc.final_output_path)
    /\ loc' = [loc EXCEPT !.final_encode_success = EncodeSucceeded(fs, LastCall),
                          !.temp_path = NoPath]
    /\ pc' = IF EncodeSucceeded(fs, LastCall) THEN "update" ELSE "cpu"
    /\ UNCHANGED <<run, config, self, arg, calls, probes, ret, renames, cascade_input>>

\* Lines 647-650
CpuFallbackDone ==
    /\ pc = "cpu_done"
    /\ fs' = FinalEncodeFinish(fs, LastCall, loc.final_output_path)
    /\ loc' = [loc EXCEPT !.final_encode_success = EncodeSucceeded(fs, LastCall),
                          !.temp_path = NoPath]
    /\ pc' = "update"
    /\ UNCHANGED <<run, config, self, arg, calls, probes, ret, renames, cascade_input>>

-----------------------------------------------------------------------------
(* process_annotation, lines 652-734: results, cleanup, return *)

\* As KeptFilename, taking the rename for done.
KeptFilenameIsTarget(l, moved) == l.final_output_path

\* Lines 665, 677, 680 and 685, 693, 696: the name reported for a file that
\* is kept, resulting_filename = os.path.basename(resulting_path)
KeptFilename(l, moved) ==
    IF moved THEN l.final_output_path ELSE l.path_for_final_encode

\* As KeptMime, reporting the target's content type.
KeptMimeIsTarget(slf, l) == slf.target_mime_type

\* Lines 666 and 686: the content type reported for a file that is kept
KeptMime(slf, l) == l.mime_for_final_encode

\* Lines 664-681 and 685-697: the input file is renamed to the final name;
\* shutil.move may raise OSError.
RenameToFinal(rename_ok) ==
    /\ IF loc.path_for_final_encode # loc.final_output_path /\ rename_ok
       THEN /\ fs' = MoveFile(RemoveIfExists(fs, loc.final_output_path),
                              loc.path_for_final_encode, loc.final_output_path)
            /\ loc' = [loc EXCEPT !.resulting_path = loc.final_output_path,
                                  !.resulting_filename = KeptFilename(loc, TRUE),
                                  !.resulting_mime = KeptMime(self, loc)]
       ELSE /\ fs' = fs
            /\ loc' = [loc EXCEPT !.resulting_path = loc.path_for_final_encode,
                                  !.resulting_filename = KeptFilename(loc, FALSE),
                                  !.resulting_mime = KeptMime(self, loc)]
    /\ renames' = IF loc.path_for_final_encode # loc.final_output_path
                  THEN Append(renames, Rename("final", loc.path_for_final_encode,
                                              loc.final_output_path, rename_ok))
                  ELSE renames

\* Lines 653-681
UpdateResults ==
    /\ pc = "update"
    /\ IF loc.final_encode_success
       THEN /\ fs' = fs
            /\ loc' = [loc EXCEPT !.resulting_path = loc.final_output_path,
                                  !.resulting_filename = loc.final_output_path,
                                  !.resulting_mime = self.target_mime_type]
            /\ renames' = renames
       ELSE \E rename_ok \in BOOLEAN : RenameToFinal(rename_ok)
    /\ pc' = "cleanup"
    /\ UNCHANGED <<run, config, self, arg, calls, probes, ret, cascade_input>>

\* Lines 683-697
NoTranscode ==
    /\ pc = "no_transcode"
    /\ \E rename_ok \in BOOLEAN : RenameToFinal(rename_ok)
    /\ pc' = "cleanup"
    /\ UNCHANGED <<run, config, self, arg, calls, probes, ret, cascade_input>>

\* As CleanupFiles, removing the scaled file even when it is the result.
CleanupFilesUnguarded(f, l) ==
    LET fs1 == IF l.intermediate_h264_file # NoPath
               THEN RemoveIfExists(f, l.intermediate_h264_file)
               ELSE f
        fs2 == IF l.initial_absolute_temp_path # l.resulting_path
               THEN RemoveIfExists(fs1, l.initial_absolute_temp_path)
               ELSE fs1
    IN IF l.scaled_intermediate_path # NoPath
       THEN RemoveIfExists(fs2, l.scaled_intermediate_path)
       ELSE fs2

\* Lines 702-719: the file system after the removals
CleanupFiles(f, l) ==
    LET fs1 == IF l.intermediate_h264_file # NoPath
               THEN RemoveIfExists(f, l.intermediate_h264_file)
               ELSE f
        fs2 == IF l.initial_absolute_temp_path # l.resulting_path
               THEN RemoveIfExists(fs1, l.initial_absolute_temp_path)
               ELSE fs1
    IN IF /\ l.scaled_intermediate_path # NoPath
          /\ l.scaled_intermediate_path # l.resulting_path
       THEN RemoveIfExists(fs2, l.scaled_intermediate_path)
       ELSE fs2

\* Lines 700-719
Cleanup ==
    /\ pc = "cleanup"
    /\ fs' = CleanupFiles(fs, loc)
    /\ pc' = "return"
    /\ UNCHANGED <<run, config, self, arg, loc, calls, probes, ret, renames, cascade_input>>

\* Lines 721-734
Return ==
    /\ pc = "return"
    /\ ret' = IF ~Exists(fs, loc.resulting_path)
              THEN NoneRecord
              ELSE [isNone              |-> FALSE,
                    pageIndex           |-> arg.page_num,
                    annotIndex          |-> arg.annot_index,
                    outputPath          |-> MEDIA_OUTPUT_DIR_NAME \o "/"
                                               \o Basename(loc.resulting_filename),
                    absolutePath        |-> loc.resulting_path,
                    contentTypeDetected |-> loc.resulting_mime,
                    pdfRect             |-> arg.pdf_rect]
    /\ pc' = "done"
    /\ UNCHANGED <<run, config, self, arg, fs, loc, calls, probes, renames, cascade_input>>

-----------------------------------------------------------------------------

Next ==
    \/ Extract
    \/ Identify
    \/ PreResizeDone
    \/ MimeAndRename
    \/ CheckVideo
    \/ Scaling
    \/ ScalingDone
    \/ Decide
    \/ Attempt1
    \/ Attempt1Done
    \/ Intermediate
    \/ IntermediateDone
    \/ Attempt2
    \/ Attempt2Done
    \/ CpuFallback
    \/ CpuFallbackDone
    \/ UpdateResults
    \/ NoTranscode
    \/ Cleanup
    \/ Return

Spec == Init /\ [][Next]_vars

\* Other configuration objects (transcoding switched off, a ceiling unset),
\* with the processors built without a codec choice.
InitAnyConfig ==
    /\ config \in [ENABLE_TRANSCODING    : {ENABLE_TRANSCODING, FALSE},
                   MAX_PRE_RESIZE_WIDTH  : {MAX_PRE_RESIZE_WIDTH, 0},
                   MAX_PRE_RESIZE_HEIGHT : {MAX_PRE_RESIZE_HEIGHT, 0},
                   FFMPEG_CODEC_OPTIONS_CPU : {FFMPEG_CODEC_OPTIONS_CPU, {"vp9", "av1"}}]
    /\ self \in { MediaProcessorInit(config, ffmpeg_path, ffprobe_path, scaling_factor,
                                      use_vaapi, None, TRUE) :
                     ffmpeg_path \in BOOLEAN, ffprobe_path \in BOOLEAN,
                     scaling_factor \in {None, "50"}, use_vaapi \in BOOLEAN }
    /\ InitCall

SpecAnyConfig == InitAnyConfig /\ [][Next]_vars

\* process_annotation is sequential code: its next step is taken as soon as
\* the probe or encoder it waits for has returned.
SpecReturning == Init /\ [][Next]_vars /\ WF_vars(Next)

-----------------------------------------------------------------------------
(* main, lines 312-365: one processor, one call per annotation, all calls on
   the same output directory. A second run over the same document is the same
   sequence of calls on the directory the first run left. *)

\* The paths the current call has named so far: the paths it created, read,
\* wrote, renamed or removed are among them.
PathsOfCall ==
    ( { loc.initial_absolute_temp_path, loc.current_path, loc.temp_path,
        loc.scaled_intermediate_path, loc.path_for_final_encode,
        loc.final_output_path, loc.resulting_path, loc.intermediate_h264_file }
      \cup { calls[i].input : i \in DOMAIN calls }
      \cup { calls[i].output : i \in DOMAIN calls }
      \cup { renames[i].src : i \in DOMAIN renames }
      \cup { renames[i].dst : i \in DOMAIN renames } ) \ {NoPath}

\* Line 345: the annotation has a stream and a rectangle
HasStreamAndRect(annot) == annot.stream_ref # NoContent /\ annot.pdf_rect # None

\* Lines 341-365: the loop takes the next annotation once the call on the
\* previous one has returned; it calls process_annotation on it, or skips it
\* with a warning. An exception leaving process_annotation ends the loop.
NextAnnotation ==
    /\ pc = "done"
    /\ run.todo # <<>>
    /\ LET annot == Head(run.todo)
       IN IF HasStreamAndRect(annot)
          THEN /\ arg' = annot
               /\ run' = [todo    |-> Tail(run.todo),
                          touched |-> run.touched \cup
                                        { [page_num |-> arg.page_num,
                                           annot_index |-> arg.annot_index,
                                           name |-> Basename(q)] : q \in PathsOfCall },
                          prev    |-> <<[arg |-> arg, ret |-> ret]>>]
               /\ loc' = InitLocals
               /\ pc' = "start"
               /\ calls' = <<>>
               /\ probes' = 0
               /\ renames' = <<>>
               /\ cascade_input' = NoContent
               /\ ret' = NoneRecord
          ELSE /\ run' = [run EXCEPT !.todo = Tail(run.todo)]
               /\ UNCHANGED <<arg, loc, pc, calls, probes, renames, cascade_input, ret>>
    /\ UNCHANGED <<config, self, fs>>

H264Mp4 == Content(<<>>, "video/mp4", "h264", 1920, 1080, "full")

H264Large == Content(<<>>, "video/mp4", "h264", 7680, 4320, "full")

Vp8Webm == Content(<<>>, "video/webm", "vp8", 1920, 1080, "full")

Vp9Webm == Content(<<>>, "video/webm", "vp9", 1920, 1080, "full")

UnprobedMp4 == Content(<<>>, "video/mp4", None, 0, 0, "full")

\* The annotation lists of the runs: an item processed again by a second
\* run, one stream object behind two annotations of a page, two items that
\* both need an encode, and annotations without an object number, one of
\* them without a rectangle.
Documents ==
    { << Annotation(0, 0, "7_0", "rect", H264Mp4),
         Annotation(0, 0, "7_0", "rect", H264Mp4) >>,
      << Annotation(0, 0, "7_0", "rect", Vp9Webm),
         Annotation(0, 0, "7_0", "rect", Vp9Webm) >>,
      << Annotation(0, 0, "7_0", "rect", Vp8Webm),
         Annotation(0, 1, "7_0", "rect", H264Large) >>,
      << Annotation(0, 0, "7_0", "rect", Vp8Webm),
         Annotation(1, 0, "8_0", "rect", Vp8Webm) >>,
      << Annotation(0, 10, None, "rect", UnprobedMp4),
         Annotation(0, 11, None, None, H264Mp4),
         Annotation(10, 0, None, "rect", H264Mp4) >> }

\* main.py, lines 117-123 and 311-320: the processor of a run gets the codec
\* of the command line, one of the allowed codecs, h264 when none is given.
InitRun ==
    /\ config = ShippedConfig
    /\ self \in { MediaProcessorInit(config, TRUE, TRUE, scaling_factor, use_vaapi,
                                      codec_choice, TRUE) :
                     scaling_factor \in {None, "50"}, use_vaapi \in BOOLEAN,
                     codec_choice \in {DEFAULT_VIDEO_CODEC, "vp9"} }
    /\ \E doc \in Documents :
         /\ arg = Head(doc)
         /\ run = [todo |-> Tail(doc), touched |-> {}, prev |-> <<>>]
    /\ fs = <<>>
    /\ loc = InitLocals
    /\ pc = "start"
    /\ calls = <<>>
    /\ probes = 0
    /\ renames = <<>>
    /\ cascade_input = NoContent
    /\ ret = NoneRecord

NextRun ==
    \/ Next
    \/ NextAnnotation

\* The loop goes on as long as it can: no step is postponed for ever.
SpecRun == InitRun /\ [][NextRun]_vars /\ WF_vars(NextRun)

-----------------------------------------------------------------------------
(* Vocabulary of the properties *)

Done == pc = "done"

Returned == pc = "done" /\ ~ret.isNone

\* safe base name + target extension
CanonicalPath ==
    Path(safe_base(arg.page_num, arg.annot_index, arg.objgen), "", self.target_extension)

Files == DOMAIN fs

FinalStages == {"attempt1", "attempt2", "cpu"}

CascadeStages == FinalStages \cup {"intermediate"}

CallsOf(stages) == { i \in 1..Len(calls) : calls[i].stage \in stages }

\* The cascade was entered (line 543) and has come to its end.
CascadeRan == loc.final_transcode_needed /\ self.enable_transcoding

\* Every attempt the cascade made failed, the software fallback last.
CascadeExhausted ==
    /\ CascadeRan
    /\ pc \in {"update", "cleanup", "return", "done"}
    /\ \A i \in CallsOf(FinalStages) : calls[i].outcome # "ok"

AttemptSucceeded == \E i \in CallsOf(FinalStages) : calls[i].outcome = "ok"

\* The rename to the canonical name was tried and raised OSError.
FinalRenameFailed ==
    \E i \in 1..Len(renames) : renames[i].site = "final" /\ ~renames[i].ok

-----------------------------------------------------------------------------
(* C1 *)

\* C1: when a final-encode attempt has succeeded, at return exactly one file
\* of the call exists, at the canonical output path: the .tmp.bin file, the
\* MIME-renamed file, the scaled intermediate, the H.264 intermediate and the
\* attempts' temporary outputs are gone.
C1_SuccessLeavesOnlyCanonical ==
    (Done /\ AttemptSucceeded) => Files = {CanonicalPath}

-----------------------------------------------------------------------------
(* C2 *)

\* An invocation touches the accelerator when it initialises the device.
AcceleratorBroken == \A i \in 1..Len(calls) : calls[i].hw_init => calls[i].outcome # "ok"

SoftwareHealthy == \A i \in 1..Len(calls) : ~calls[i].hw_init => calls[i].outcome = "ok"

SoftwareEncoded(c) ==
    /\ c.lineage # <<>> /\ c.lineage[Len(c.lineage)] = "cpu"
    /\ c.codec = self.target_codec /\ c.size = "full"

\* C2: when a final transcode is required and transcoding is enabled, if
\* acceleration is off or every invocation touching the accelerator fails,
\* and every purely software invocation succeeds, the call ends with a
\* software-encoded file of the target codec at the canonical path and
\* returns a record with the target content type.
C2_SoftwarePathReachesOutput ==
    (/\ Done /\ CascadeRan
     /\ ~self.use_vaapi \/ AcceleratorBroken
     /\ SoftwareHealthy)
    => /\ ~ret.isNone
       /\ ret.absolutePath = CanonicalPath
       /\ Exists(fs, CanonicalPath)
       /\ SoftwareEncoded(fs[CanonicalPath])
       /\ ret.contentTypeDetected = self.target_mime_type

-----------------------------------------------------------------------------
(* C3 *)

\* C3: when every attempt of the cascade has failed, a record is still
\* returned, and the file it names holds the bytes of the cascade's input
\* file: at the canonical name when the rename succeeded (or was not needed),
\* at its previous path when the rename failed.
C3_ExhaustedKeepsInput ==
    (Done /\ CascadeExhausted)
    => /\ ~ret.isNone
       /\ Exists(fs, ret.absolutePath)
       /\ fs[ret.absolutePath] = cascade_input
       /\ ret.absolutePath = IF FinalRenameFailed THEN loc.path_for_final_encode
                                                  ELSE CanonicalPath

\* All three attempts failed after a successful scaling, and the rename of
\* the scaled file failed.
C3_Witness ==
    /\ Done /\ CascadeExhausted /\ FinalRenameFailed
    /\ Len(cascade_input.lineage) > 0
    /\ cascade_input.lineage[Len(cascade_input.lineage)] = "scale"
    /\ \E i \in CallsOf({"attempt2"}) : calls[i].outcome # "ok"

-----------------------------------------------------------------------------
(* C4 *)

\* C4: on every return path the files of the call that exist at return are
\* none, or exactly one file at the canonical name.
C4_OnlyCanonicalRemains ==
    Done => (Files = {} \/ Files = {CanonicalPath})

-----------------------------------------------------------------------------
(* C5 *)

\* The entry decision of line 513 was reached for a preferred pair without
\* an explicit change.
AlreadyAcceptable ==
    /\ pc \in {"no_transcode", "attempt1", "intermediate", "cpu", "attempt1_done",
               "intermediate_done", "attempt2", "attempt2_done", "cpu_done",
               "update", "cleanup", "return", "done"}
    /\ loc.path_for_final_encode # NoPath
    /\ IsPreferredFormat(loc.ext_for_final_encode, loc.codec_for_final_encode)
    /\ ~ExplicitChange(self, loc.ext_for_final_encode, loc.codec_for_final_encode)

\* C5 as stated: for an already acceptable item the cascade invokes no
\* encoder, and after return the file at the canonical path has the bytes of
\* the cascade's input.
C5_AcceptableIsRenamedCopy ==
    AlreadyAcceptable
    => /\ CallsOf(CascadeStages) = {}
       /\ Done => /\ Exists(fs, CanonicalPath)
                   /\ fs[CanonicalPath] = cascade_input

\* C5, amended: for an already acceptable item the cascade invokes no
\* encoder; after return the returned file is byte-identical to the
\* cascade's input, at the canonical path when the rename to it succeeded or
\* was not needed, and at its previous path when that rename raised OSError.
C5_AcceptableIsKeptUnencoded ==
    AlreadyAcceptable
    => /\ CallsOf(CascadeStages) = {}
       /\ Done => LET kept == IF FinalRenameFailed THEN loc.path_for_final_encode
                                                   ELSE CanonicalPath
                   IN /\ Exists(fs, kept)
                      /\ fs[kept] = cascade_input
                      /\ ~ret.isNone /\ ret.absolutePath = kept

\* A vp9/.webm stream with the default target h264 is renamed to .mp4.
C5_Witness ==
    /\ Done /\ AlreadyAcceptable
    /\ self.enable_transcoding
    /\ loc.ext_for_final_encode = ".webm"
    /\ CanonicalPath.ext = ".mp4"
    /\ Exists(fs, CanonicalPath)
    /\ fs[CanonicalPath].lineage = <<>>

-----------------------------------------------------------------------------
(* C6 *)

\* The call extracted a stream that was identified as a video.
VideoItem == IsVideo(loc.detected_mime)

-----------------------------------------------------------------------------
(* C7 *)

\* The record returned after a successful transcode of the item.
SuccessRecord ==
    [isNone              |-> FALSE,
     pageIndex           |-> arg.page_num,
     annotIndex          |-> arg.annot_index,
     outputPath          |-> MEDIA_OUTPUT_DIR_NAME \o "/" \o Basename(CanonicalPath),
     absolutePath        |-> CanonicalPath,
     contentTypeDetected |-> self.target_mime_type,
     pdfRect             |-> arg.pdf_rect]

-----------------------------------------------------------------------------
(* C8 *)

\* The encoder invocations of the cascade, in order.
CascadeCalls == SelectSeq(calls, LAMBDA c : c.stage \in CascadeStages)

\* The entry decision was taken with acceleration on, source vp8, target h264.
Vp8ToH264Accelerated ==
    /\ pc \in {"attempt1", "intermediate", "cpu", "attempt1_done", "intermediate_done",
               "attempt2", "attempt2_done", "cpu_done", "no_transcode",
               "update", "cleanup", "return", "done"}
    /\ self.use_vaapi
    /\ self.target_codec = "h264"
    /\ loc.codec_for_final_encode = "vp8"

\* C8: with acceleration on, source vp8 and target h264, the direct
\* accelerated attempt is not run; the first invocation builds the H.264
\* intermediate from the cascade's input; once it is built the next
\* invocation is the accelerated attempt from the intermediate; when that
\* fails the software fallback follows, with the intermediate as its input;
\* when the fallback succeeds the returned file has extension .mp4; the
\* intermediate does not exist at return.
C8_Vp8GoesThroughIntermediate ==
    Vp8ToH264Accelerated
    => LET cc    == CascadeCalls
           inter == IntermediatePath(loc.path_for_final_encode.base)
       IN /\ CallsOf({"attempt1"}) = {}
          /\ Len(cc) >= 1
             => /\ cc[1].stage = "intermediate"
                /\ cc[1].input = loc.path_for_final_encode
                /\ cc[1].output = inter
          /\ (Len(cc) >= 2 /\ cc[1].outcome = "ok")
             => /\ cc[2].stage = "attempt2"
                /\ cc[2].input = inter
                /\ cc[2].hw_encode
          /\ (Len(cc) >= 3 /\ cc[1].outcome = "ok")
             => /\ cc[2].outcome # "ok"
                /\ cc[3].stage = "cpu"
                /\ cc[3].input = inter
          /\ Done
             => /\ Len(cc) >= 2
                /\ (cc[1].outcome = "ok" /\ cc[2].outcome # "ok") => (Len(cc) = 3)
                /\ (cc[Len(cc)].stage = "cpu" /\ cc[Len(cc)].outcome = "ok")
                   => (/\ ~ret.isNone
                       /\ ret.absolutePath = CanonicalPath
                       /\ ret.absolutePath.ext = ".mp4"
                       /\ fs[ret.absolutePath].codec = "h264")
                /\ ~Exists(fs, inter)

\* The intermediate was built, the accelerated attempt from it failed and
\* the software fallback from it succeeded.
C8_Witness ==
    /\ Done /\ Vp8ToH264Accelerated
    /\ Len(CascadeCalls) = 3
    /\ CascadeCalls[1].outcome = "ok"
    /\ CascadeCalls[2].outcome # "ok"
    /\ CascadeCalls[3].outcome = "ok"
    /\ CascadeCalls[3].input = IntermediatePath(loc.path_for_final_encode.base)
    /\ ret.absolutePath.ext = ".mp4"

-----------------------------------------------------------------------------
(* C9 *)

\* A scale percentage in 1..99 is set and transcoding is enabled.
ScalingRequested ==
    self.scaling_factor \in 1..99 /\ self.enable_transcoding

Succeeded(stages) == \E i \in CallsOf(stages) : calls[i].outcome = "ok"

-----------------------------------------------------------------------------
(* C10 *)

\* The conditions of C10 on the file the stage is called with.
PreResizeNotDue ==
    LET info == _get_video_info(self, fs, loc.current_path)
    IN \/ config.MAX_PRE_RESIZE_WIDTH = 0
       \/ config.MAX_PRE_RESIZE_HEIGHT = 0
       \/ info = NoInfo
       \/ /\ info.width <= config.MAX_PRE_RESIZE_WIDTH
          /\ info.height <= config.MAX_PRE_RESIZE_HEIGHT

\* C10: when a ceiling is unset, the probe gave nothing, or width and height
\* are within the ceilings, the pre-resize stage invokes no encoder, creates
\* no file, and leaves the working file's bytes and path as they were.
C10_PreResizeNoOp ==
    [][ (pc = "identify" /\ PreResizeNotDue)
        => /\ calls' = calls
           /\ fs' = fs
           /\ loc'.current_path = loc.current_path
           /\ loc'.temp_path = NoPath
           /\ ~loc'.resized
           /\ pc' = "mime" ]_vars

\* An oversized video went through the stage untouched because the width
\* ceiling is unset, with ffmpeg and ffprobe at hand.
C10_Witness ==
    /\ pc = "mime"
    /\ self.ffmpeg_path
    /\ config.MAX_PRE_RESIZE_WIDTH = 0
    /\ config.MAX_PRE_RESIZE_HEIGHT = MAX_PRE_RESIZE_HEIGHT
    /\ loc.video_info.width > MAX_PRE_RESIZE_WIDTH
    /\ loc.video_info.height > MAX_PRE_RESIZE_HEIGHT
    /\ calls = <<>>
    /\ Files = {loc.current_path}

-----------------------------------------------------------------------------
(* C11 *)

Abs(x) == IF x < 0 THEN -x ELSE x

Max(a, b) == IF a >= b THEN a ELSE b

\* w : h is iw : ih up to the rounding of one dimension to a whole pixel.
SameAspectWithinRounding(w, h, iw, ih) == Abs(w * ih - h * iw) <= Max(iw, ih)

\* C11: at most one pre-resize pass is made for an item; when it has been
\* invoked (the probed size exceeds a ceiling) the size it requests is even
\* in both dimensions, within both ceilings, and in the source's aspect
\* ratio within rounding.
C11_PreResizeEvenWithinCeilings ==
    /\ Cardinality(CallsOf({"preresize"})) <= 1
    /\ pc = "preresize_done"
       => LET v    == loc.video_info
              size == PreResizeFilter(v.width, v.height, config.MAX_PRE_RESIZE_WIDTH,
                                      config.MAX_PRE_RESIZE_HEIGHT)
          IN /\ Cardinality(CallsOf({"preresize"})) = 1
             /\ v.width > config.MAX_PRE_RESIZE_WIDTH
                \/ v.height > config.MAX_PRE_RESIZE_HEIGHT
             /\ size.width % 2 = 0
             /\ size.height % 2 = 0
             /\ size.width <= config.MAX_PRE_RESIZE_WIDTH
             /\ size.height <= config.MAX_PRE_RESIZE_HEIGHT
             /\ SameAspectWithinRounding(size.width, size.height, v.width, v.height)

-----------------------------------------------------------------------------
(* C14 *)

\* The call returned from the extraction block, lines 393-423.
ExtractionFailed == pc = "done" /\ loc.current_path = NoPath

\* C14: when reading the stream fails, the stream is empty, or writing the
\* initial temporary file fails, no record is returned, neither ffprobe nor
\* ffmpeg is invoked, and no file of the item is left in the directory.
C14_FailedExtractionLeavesNothing ==
    ExtractionFailed
    => /\ ret.isNone
       /\ probes = 0
       /\ calls = <<>>
       /\ Files = {}

-----------------------------------------------------------------------------
(* C15 *)

\* C15: every record returned names a file that exists at return; its
\* outputPath is the media directory name, a forward slash and the basename
\* of absolutePath; its pdfRect is the rectangle passed in.
C15_RecordNamesExistingFile ==
    Returned
    => /\ Exists(fs, ret.absolutePath)
       /\ ret.outputPath = MEDIA_OUTPUT_DIR_NAME \o "/" \o Basename(ret.absolutePath)
       /\ ret.pdfRect = arg.pdf_rect
       /\ ret.pageIndex = arg.page_num /\ ret.annotIndex = arg.annot_index

\* A record returned after an exhausted cascade whose rename failed: it
\* names the file under the name it kept.
C15_Witness ==
    /\ Returned /\ CascadeExhausted /\ FinalRenameFailed
    /\ ret.absolutePath # CanonicalPath
    /\ ret.outputPath = "videos/slide_1_annot_1_7_0.mov"

-----------------------------------------------------------------------------
(* C17 *)

\* C17: the software fallback requests neither hardware decode nor
\* hardware encode and does not initialise the accelerator device, whatever
\* the source codec and whether its input is the intermediate or the
\* cascade's input.
C17_FallbackIsSoftwareOnly ==
    \A i \in CallsOf({"cpu"}) :
        /\ ~calls[i].hw_decode
        /\ ~calls[i].hw_encode
        /\ ~calls[i].hw_init

-----------------------------------------------------------------------------
(* C12 *)

\* The file names of the paths the current call has named
NamesOfCall == { Basename(q) : q \in PathsOfCall }

-----------------------------------------------------------------------------
(* C13 *)

\* C13: an item whose processing fails or ends degraded never stops the
\* run: the loop goes on to every later annotation, and each one that has a
\* stream and a rectangle is passed to process_annotation, whatever the
\* probes and encoders of the earlier items did.
C13_FailedItemNeverStopsRun ==
    /\ [][run.todo' # run.todo
           => /\ run.todo' = Tail(run.todo)
              /\ HasStreamAndRect(Head(run.todo))
                 => (arg' = Head(run.todo) /\ pc' = "start")]_vars
    /\ (run.todo # <<>>) ~> (run.todo = <<>>)

\* The call on an annotation is under way after the call on the annotation
\* before it returned no record.
C13_Witness ==
    /\ run.prev # <<>>
    /\ run.prev[1].ret.isNone
    /\ run.prev[1].arg # arg
    /\ calls # <<>>

-----------------------------------------------------------------------------
(* C16 *)

\* The call is one of two calls in a row on the same item and stream.
SameItemTwice ==
    \/ run.prev = <<>> /\ run.todo # <<>> /\ Head(run.todo) = arg
    \/ run.prev # <<>> /\ run.prev[1].arg = arg

\* C16 as stated: each of two runs in a row on the same already acceptable
\* input leaves a file with the bytes of the cascade's input at the
\* canonical path; the output of the first run does not disturb the second.
C16_RepeatLeavesCanonicalCopy ==
    (Done /\ AlreadyAcceptable /\ SameItemTwice)
    => /\ Exists(fs, CanonicalPath)
       /\ fs[CanonicalPath] = cascade_input

\* C16, amended: each of the two runs leaves a file with the bytes of the
\* cascade's input, at the canonical path when the rename to it succeeded
\* or was not needed, and at its previous path when that rename raised
\* OSError.
C16_RepeatLeavesCopy ==
    (Done /\ AlreadyAcceptable /\ SameItemTwice)
    => LET kept == IF FinalRenameFailed THEN loc.path_for_final_encode
                                        ELSE CanonicalPath
       IN /\ Exists(fs, kept)
          /\ fs[kept] = cascade_input

\* The second run found the output of the first at the canonical path and
\* left its own there.
C16_Witness ==
    /\ Done /\ AlreadyAcceptable
    /\ run.prev # <<>> /\ run.prev[1].arg = arg
    /\ ~run.prev[1].ret.isNone /\ run.prev[1].ret.absolutePath = CanonicalPath
    /\ renames # <<>> /\ ~FinalRenameFailed
    /\ Exists(fs, CanonicalPath) /\ fs[CanonicalPath] = cascade_input

-----------------------------------------------------------------------------
(* C18 *)

\* The final-encode attempts of the call, in order.
FinalCalls == SelectSeq(calls, LAMBDA c : c.stage \in FinalStages)

StageRank(stage) ==
    CASE stage = "attempt1" -> 1
      [] stage = "attempt2" -> 2
      [] stage = "cpu"      -> 3

\* C18: at most three final-encode attempts are made, in the order direct
\* accelerated, accelerated from the intermediate, software fallback; after
\* the first successful attempt no encoder is invoked any more; at most one
\* attempt's output is moved to the canonical path, and it is the output of
\* a successful attempt.
C18_AttemptsInOrderFirstSuccessEnds ==
    /\ Len(FinalCalls) <= 3
    /\ \A i, j \in DOMAIN FinalCalls :
          i < j => StageRank(FinalCalls[i].stage) < StageRank(FinalCalls[j].stage)
    /\ \A i \in CallsOf(FinalStages) : calls[i].outcome = "ok" => i = Len(calls)
    /\ Cardinality({ i \in CallsOf(FinalStages) : calls[i].outcome = "ok" }) <= 1
    /\ \A p \in Files :
          (p = loc.final_output_path /\ fs[p].lineage # <<>>
              /\ fs[p].lineage[Len(fs[p].lineage)] \in FinalStages)
          => \E i \in CallsOf(FinalStages) :
                /\ calls[i].stage = fs[p].lineage[Len(fs[p].lineage)]
                /\ calls[i].outcome = "ok"

\* Three attempts were made and the third succeeded.
C18_Witness ==
    /\ Done
    /\ Len(FinalCalls) = 3
    /\ FinalCalls[1].outcome # "ok" /\ FinalCalls[2].outcome # "ok"
    /\ FinalCalls[3].outcome = "ok"
    /\ Exists(fs, CanonicalPath)
    /\ fs[CanonicalPath].lineage[Len(fs[CanonicalPath].lineage)] = "cpu"

-----------------------------------------------------------------------------
(* C19 *)

\* Acceleration is enabled, the target codec has a VAAPI profile, and the
\* codec of the cascade's input is known and decodable by the accelerator.
DirectEligible ==
    /\ self.use_vaapi
    /\ self.target_codec \in FFMPEG_CODEC_OPTIONS_VAAPI
    /\ loc.codec_for_final_encode # None
    /\ loc.codec_for_final_encode \in VAAPI_DECODABLE_CODECS

DirectRun == CallsOf({"attempt1"}) # {}

\* C19 as stated: the direct accelerated attempt is run if and only if
\* acceleration is enabled, the target codec has an accelerated profile and
\* the codec of the cascade's input is known and decodable; an item of
\* unknown codec leads to no direct attempt and to no hardware-decode
\* request.
C19_DirectIffEligible ==
    /\ pc \in {"cleanup", "return", "done"} /\ loc.path_for_final_encode # NoPath
       => (DirectRun <=> DirectEligible)
    /\ loc.codec_for_final_encode = None
       => \A i \in DOMAIN calls : calls[i].stage # "attempt1" /\ ~calls[i].hw_decode

\* C19, amended: when a final encode is required and transcoding is
\* enabled, the direct accelerated attempt is run if and only if
\* acceleration is enabled, the target codec has an accelerated profile and
\* the codec of the cascade's input is known and decodable, and otherwise no
\* direct attempt is run; an input of unknown codec leads to no direct
\* attempt, and no invocation on that input requests hardware decode or
\* initialises the device.
C19_DirectIffEligibleWhenEncoding ==
    /\ DirectRun => (CascadeRan /\ DirectEligible)
    /\ (CascadeRan /\ pc # "attempt1") => (DirectRun <=> DirectEligible)
    /\ loc.codec_for_final_encode = None
       => \A i \in DOMAIN calls :
             /\ calls[i].stage # "attempt1"
             /\ calls[i].input = loc.path_for_final_encode
                => (~calls[i].hw_decode /\ ~calls[i].hw_init)

\* With acceleration enabled an input of unknown codec went through the
\* intermediate and was then handed to the software fallback.
C19_Witness ==
    /\ Done /\ CascadeRan /\ self.use_vaapi
    /\ loc.codec_for_final_encode = None
    /\ ~DirectRun
    /\ \E i \in CallsOf({"cpu"}) : calls[i].input = loc.path_for_final_encode

-----------------------------------------------------------------------------
(* C20 *)

\* C20: the intermediate is built only when accelerated encode is possible
\* and the direct attempt was skipped or failed; it is encoded from the
\* cascade's input path, never from the output of an attempt; the
\* accelerated attempt from the intermediate is run if and only if the
\* intermediate encode succeeded.
C20_IntermediateFromCascadeInput ==
    /\ \A i \in CallsOf({"intermediate"}) :
          /\ self.use_vaapi /\ self.target_codec \in FFMPEG_CODEC_OPTIONS_VAAPI
          /\ calls[i].input = loc.path_for_final_encode
          /\ \A j \in CallsOf(FinalStages) :
                j < i => /\ calls[j].stage = "attempt1"
                         /\ calls[j].outcome # "ok"
                         /\ calls[j].output # calls[i].input
    /\ \A i \in CallsOf({"attempt2"}) :
          /\ i > 1
          /\ calls[i - 1].stage = "intermediate"
          /\ calls[i - 1].outcome = "ok"
          /\ calls[i].input = calls[i - 1].output
    /\ \A i \in CallsOf({"intermediate"}) :
          (calls[i].outcome = "ok" /\ pc \notin {"intermediate_done", "attempt2"})
          => (i < Len(calls) /\ calls[i + 1].stage = "attempt2")

\* The direct attempt failed, the intermediate was built from the cascade's
\* input and the accelerated attempt from it was run.
C20_Witness ==
    /\ Done
    /\ Len(CascadeCalls) >= 3
    /\ CascadeCalls[1].stage = "attempt1" /\ CascadeCalls[1].outcome # "ok"
    /\ CascadeCalls[2].stage = "intermediate" /\ CascadeCalls[2].outcome = "ok"
    /\ CascadeCalls[2].input = CascadeCalls[1].input
    /\ CascadeCalls[3].stage = "attempt2"

-----------------------------------------------------------------------------
(* C21 *)

\* The intermediate encode of this cascade succeeded before invocation i.
IntermediateBuiltBefore(i) ==
    \E j \in CallsOf({"intermediate"}) : j < i /\ calls[j].outcome = "ok"

\* C21: the software fallback takes the intermediate as its input if and
\* only if the intermediate encode succeeded in this cascade; when the
\* intermediate was not attempted or failed, it takes the cascade's input.
C21_FallbackInputIsIntermediateIffBuilt ==
    \A i \in CallsOf({"cpu"}) :
        /\ calls[i].input = IntermediatePath(loc.path_for_final_encode.base)
           <=> IntermediateBuiltBefore(i)
        /\ ~IntermediateBuiltBefore(i) => calls[i].input = loc.path_for_final_encode

\* The fallback ran on the intermediate after the accelerated attempt from
\* it had failed.
C21_Witness ==
    /\ Done
    /\ \E i \in CallsOf({"cpu"}) :
          /\ IntermediateBuiltBefore(i)
          /\ calls[i].input = IntermediatePath(loc.path_for_final_encode.base)
          /\ calls[i].input # loc.path_for_final_encode

-----------------------------------------------------------------------------
(* C22 *)

\* A final-encode attempt is between the creation of its temporary output
\* and its return.
InFinalEncodeStep == pc \in {"attempt1_done", "attempt2_done", "cpu_done"}

\* The names NamedTemporaryFile gives to the outputs of the attempts
FinalEncodeTemps ==
    { FinalEncodeTemp(loc.final_output_path, use_vaapi) : use_vaapi \in BOOLEAN }

\* C22: each final-encode attempt writes to a temporary file of its own,
\* which is neither its input nor the canonical path, and once the attempt
\* has returned or raised (success, encoder failure, zero-byte output,
\* missing encoder options for the target codec) no file is left under that
\* temporary name.
C22_NoAttemptTempRemains ==
    /\ \A i \in CallsOf(FinalStages) :
          /\ calls[i].output \in FinalEncodeTemps
          /\ calls[i].output # calls[i].input
          /\ calls[i].output # loc.final_output_path
    /\ (~InFinalEncodeStep /\ loc.final_output_path # NoPath)
       => \A p \in FinalEncodeTemps : ~Exists(fs, p)

-----------------------------------------------------------------------------
(* C23 *)

\* The encoder of invocation i exited with status 0 and left a non-empty
\* output file.
ExitZeroWithOutput(i) == calls[i].outcome = "ok"

-----------------------------------------------------------------------------
(* C24 *)

\* The entry decision of lines 513-530 has been taken.
Decided ==
    pc \in {"no_transcode", "attempt1", "intermediate", "cpu", "attempt1_done",
            "intermediate_done", "attempt2", "attempt2_done", "cpu_done",
            "update", "cleanup", "return", "done"}
    /\ loc.path_for_final_encode # NoPath

\* (a) the current codec is not listed for the current extension, or (b) a
\* codec was requested and it, or the extension of its container, differs
\* from the current one.
EncodeRequiredAsClaimed ==
    \/ loc.codec_for_final_encode \notin PREFERRED_FORMATS(loc.ext_for_final_encode)
    \/ /\ self.user_codec_choice # None
       /\ \/ self.user_codec_choice # loc.codec_for_final_encode
          \/ CODEC_FORMAT_MAP(self.user_codec_choice).ext # loc.ext_for_final_encode

\* C24 as stated: a final encode is required if and only if (a) or (b);
\* when it is not required the cascade invokes no encoder and the current
\* file is renamed to the canonical output name.
C24_RequiredIffNotPreferredOrOverride ==
    Decided
    => /\ loc.final_transcode_needed <=> EncodeRequiredAsClaimed
       /\ ~loc.final_transcode_needed
          => /\ CallsOf(CascadeStages) = {}
             /\ Done => (Exists(fs, CanonicalPath) /\ fs[CanonicalPath] = cascade_input)

\* C24, amended: a final encode is required if and only if (a) or (b); when
\* it is not required the cascade invokes no encoder and the current file is
\* renamed to the canonical output name, or kept under its current name
\* when that rename raises OSError.
C24_RequiredIffNotPreferredOrOverrideKept ==
    Decided
    => /\ loc.final_transcode_needed <=> EncodeRequiredAsClaimed
       /\ ~loc.final_transcode_needed
          => /\ CallsOf(CascadeStages) = {}
             /\ Done => LET kept == IF FinalRenameFailed THEN loc.path_for_final_encode
                                                         ELSE CanonicalPath
                         IN Exists(fs, kept) /\ fs[kept] = cascade_input

\* An h264 file in a .mov container needed the encode; a requested vp9 for a
\* vp9 .webm file did not, and the file stayed as it was.
C24_Witness ==
    /\ Done
    /\ self.user_codec_choice = "vp9"
    /\ loc.codec_for_final_encode = "vp9" /\ loc.ext_for_final_encode = ".webm"
    /\ ~loc.final_transcode_needed
    /\ Exists(fs, CanonicalPath) /\ fs[CanonicalPath].lineage = <<>>

-----------------------------------------------------------------------------
(* C25 *)

\* ffprobe reports no video stream with width, height and codec for the
\* file: it exits non-zero, prints nothing parseable, or finds no such stream.
NothingToReport(content) ==
    content.codec = None \/ content.width = 0 \/ content.height = 0 \/ content.size # "full"

\* C25: _get_video_info never raises and never modifies the probed file;
\* when ffprobe is missing, or exits non-zero, or prints something
\* unparseable, or reports no video stream with width, height and codec, the
\* result is the unknown result None.
C25_ProbeDegradesToUnknown ==
    /\ [](pc = "mime"
          => /\ ~self.ffprobe_path => (loc.video_info = NoInfo /\ probes = 0)
             /\ NothingToReport(fs[loc.current_path]) => loc.video_info = NoInfo)
    /\ [][pc = "identify"
           => /\ pc' \in {"mime", "preresize_done"}
              /\ fs'[loc.current_path] = fs[loc.current_path]
              /\ pc' = "mime" => fs' = fs]_vars

\* ffprobe was run on a stream it cannot read and the result is unknown.
C25_Witness ==
    /\ pc = "mime"
    /\ self.ffprobe_path /\ probes = 1
    /\ NothingToReport(fs[loc.current_path])
    /\ loc.video_info = NoInfo

-----------------------------------------------------------------------------
(* C26 *)

\* The pre-resize encoder was run and failed, and the step has returned.
PreResizeFailed ==
    /\ pc # "preresize_done"
    /\ \E i \in CallsOf({"preresize"}) : calls[i].outcome # "ok"

\* C26: when the pre-resize encoder fails (non-zero exit or empty output),
\* the temporary output is deleted and the step reports not-resized; the
\* pipeline goes on, and it goes on with the working file at its path with
\* its original bytes.
C26_FailedPreResizeKeepsOriginal ==
    /\ [](PreResizeFailed
          => /\ ~loc.resized
             /\ \A i \in CallsOf({"preresize"}) : ~Exists(fs, calls[i].output)
             /\ pc = "mime"
                => /\ loc.current_path = calls[1].input
                   /\ Exists(fs, loc.current_path)
                   /\ fs[loc.current_path] = arg.stream_ref)
    /\ [][pc = "preresize_done" => pc' = "mime"]_vars

\* The encoder left an empty output and the pipeline is at the MIME step
\* with the original file.
C26_Witness ==
    /\ pc = "mime"
    /\ PreResizeFailed
    /\ calls[1].outcome = "zero"
    /\ Files = {loc.current_path}
    /\ fs[loc.current_path] = arg.stream_ref

-----------------------------------------------------------------------------
(* C27 *)

\* The content the pre-resize encoder writes when it succeeds
CompleteResized(content) == content.lineage = <<"preresize">> /\ content.size = "full"

\* C27: from the probe to the end of pre-resize the working path holds
\* either the complete original or the complete resized content; the
\* encoder writes to a sibling temporary file, and the working path changes
\* only by the move of the finished temporary file over it, made after the
\* encoder was found to have succeeded.
C27_WorkingFileOriginalOrResized ==
    /\ [](pc \in {"identify", "preresize_done", "mime"}
          => /\ Exists(fs, loc.current_path)
             /\ \/ fs[loc.current_path] = arg.stream_ref
                \/ CompleteResized(fs[loc.current_path])
             /\ pc = "preresize_done"
                => /\ fs[loc.current_path] = arg.stream_ref
                   /\ LastCall.output # loc.current_path
                   /\ LastCall.output.base = loc.current_path.base)
    /\ [][(pc \in {"identify", "preresize_done"}
            /\ fs'[loc.current_path] # fs[loc.current_path])
           => /\ pc = "preresize_done"
              /\ LastCall.outcome = "ok"
              /\ fs'[loc.current_path] = fs[LastCall.output]
              /\ ~Exists(fs', LastCall.output)]_vars

\* The finished temporary file was moved over the working file.
C27_Witness ==
    /\ pc = "mime"
    /\ loc.resized
    /\ CompleteResized(fs[loc.current_path])
    /\ Files = {loc.current_path}

-----------------------------------------------------------------------------
(* C28 *)

\* The scaling encoder was run and the orchestrator has dealt with its result.
ScalingReturned(i) == calls[i].stage = "scale" /\ pc # "scaling_done"

\* The content of the working file before scaling: the stream, or the
\* pre-resized stream
PreScalingContent(content) == content = arg.stream_ref \/ CompleteResized(content)

\* C28: when the scaling step fails, the pre-scaling file is the cascade's
\* input, with its bytes unchanged and the codec, extension and MIME type it
\* had before, and the scaled intermediate does not exist any more.
C28_FailedScalingKeepsSource ==
    \A i \in DOMAIN calls :
        (ScalingReturned(i) /\ calls[i].outcome # "ok")
        => /\ loc.path_for_final_encode = calls[i].input
           /\ loc.path_for_final_encode = loc.current_path
           /\ loc.codec_for_final_encode = loc.source_codec
           /\ loc.ext_for_final_encode = loc.current_path.ext
           /\ loc.mime_for_final_encode = loc.detected_mime
           /\ ~Exists(fs, calls[i].output)
           /\ pc = "decide"
              => (Exists(fs, loc.current_path) /\ PreScalingContent(fs[loc.current_path]))
           /\ pc \notin {"decide", "raised"} => PreScalingContent(cascade_input)

\* The scaling of a vp9 .webm file failed and the decision was taken for
\* vp9 in .webm.
C28_Witness ==
    /\ pc \in {"no_transcode", "attempt1", "intermediate", "cpu"}
    /\ calls # <<>> /\ LastCall.stage = "scale" /\ LastCall.outcome # "ok"
    /\ loc.codec_for_final_encode = "vp9" /\ loc.ext_for_final_encode = ".webm"
    /\ cascade_input = arg.stream_ref

-----------------------------------------------------------------------------
(* C29 *)

\* C29: when the scaling step succeeds, the pre-scaling working file is
\* deleted (at once, or by the cleanup when it still is the initial
\* temporary file) and the entry decision of the cascade is taken for the
\* scaled intermediate with codec h264, extension .mp4 and MIME video/mp4,
\* whatever the source was, without another probe.
C29_ScaledFileIsH264Mp4 ==
    /\ [](\A i \in DOMAIN calls :
            (ScalingReturned(i) /\ calls[i].outcome = "ok")
            => /\ loc.path_for_final_encode = calls[i].output
               /\ loc.codec_for_final_encode = "h264"
               /\ loc.ext_for_final_encode = ".mp4"
               /\ loc.mime_for_final_encode = "video/mp4"
               /\ (pc = "decide" /\ loc.current_path # loc.initial_absolute_temp_path)
                  => ~Exists(fs, loc.current_path)
               /\ pc = "done" => \A p \in Files : ~PreScalingContent(fs[p])
               /\ pc \notin {"decide", "raised"}
                  => /\ cascade_input.lineage[Len(cascade_input.lineage)] = "scale"
                     /\ loc.final_transcode_needed
                        <=> (/\ self.user_codec_choice # None
                             /\ self.user_codec_choice # "h264"))
    /\ [][(pc \in {"scaling", "scaling_done", "decide"}) => (probes' = probes)]_vars

\* A vp9 .webm source was scaled, its file is gone, and no final encode was
\* found necessary.
C29_Witness ==
    /\ pc = "no_transcode"
    /\ calls # <<>> /\ LastCall.stage = "scale" /\ LastCall.outcome = "ok"
    /\ arg.stream_ref.codec = "vp9"
    /\ loc.source_codec = "vp9"
    /\ loc.codec_for_final_encode = "h264"
    /\ Files = {loc.path_for_final_encode}

-----------------------------------------------------------------------------
(* C30 *)

\* The audio options of the target container
AudioOfContainer(ext) == IF ext = ".webm" THEN "libopus_96k" ELSE "aac_128k"

\* C30: the audio options of every final-encode attempt are those of the
\* target container, Opus at 96k for .webm and AAC at 128k otherwise, and
\* the same in every attempt of the item, whatever its acceleration flags,
\* its input and the failures before it.
C30_AudioByContainerOnly ==
    \A i \in DOMAIN calls :
        calls[i].stage \in FinalStages
        => /\ calls[i].audio = AudioOfContainer(self.target_extension)
           /\ \A j \in DOMAIN calls :
                 calls[j].stage \in FinalStages => calls[j].audio = calls[i].audio

\* The three attempts of a .webm target have run, the second one from
\* another input than the first and the third one without the hardware
\* encoder of the second.
C30_Witness ==
    /\ self.target_extension = ".webm"
    /\ \E i, j, k \in DOMAIN calls :
          /\ calls[i].stage = "attempt1" /\ calls[i].outcome # "ok"
          /\ calls[j].stage = "attempt2" /\ calls[j].outcome # "ok"
          /\ calls[k].stage = "cpu"
          /\ calls[i].input # calls[j].input
          /\ calls[j].hw_encode # calls[k].hw_encode
          /\ calls[k].audio = "libopus_96k"

-----------------------------------------------------------------------------
(* C31 *)

\* The target format the constructor fixes for a codec choice
TargetFormat(codec_choice) ==
    [codec |-> _determine_target_format(codec_choice),
     ext   |-> CODEC_FORMAT_MAP(_determine_target_format(codec_choice)).ext,
     mime  |-> CODEC_FORMAT_MAP(_determine_target_format(codec_choice)).mime]

\* C31: no step of process_annotation changes a field of the processor or
\* the configuration, and every final-encode attempt of every item of the
\* run is made toward the target codec and container fixed at construction.
C31_OneTargetPerRun ==
    /\ [][self' = self /\ config' = config]_vars
    /\ [](\A i \in DOMAIN calls :
            calls[i].stage \in FinalStages
            => /\ calls[i].vcodec[1] = TargetFormat(self.user_codec_choice).codec
               /\ calls[i].output.ext = TargetFormat(self.user_codec_choice).ext
               /\ loc.final_output_path.ext = TargetFormat(self.user_codec_choice).ext)

\* The second item of a run is encoded, after a first item that was encoded
\* toward the same target.
C31_Witness ==
    /\ run.prev # <<>>
    /\ run.prev[1].ret.contentTypeDetected = self.target_mime_type
    /\ run.prev[1].arg.stream_ref.codec = "vp8"
    /\ arg.stream_ref.codec = "vp8"
    /\ \E i \in DOMAIN calls :
          /\ calls[i].stage \in FinalStages
          /\ calls[i].outcome = "ok"
          /\ calls[i].vcodec[1] = self.target_codec

-----------------------------------------------------------------------------
(* C32 *)

\* The canonical path has received a file, or another file, in the step
CanonicalPathWritten ==
    /\ Exists(fs', CanonicalPath)
    /\ Exists(fs, CanonicalPath) => fs'[CanonicalPath] # fs[CanonicalPath]

\* The step has moved a file of the directory to the canonical path
MovedToCanonicalPath ==
    \E q \in DOMAIN fs \ {CanonicalPath} :
        /\ fs[q] = fs'[CanonicalPath]
        /\ ~Exists(fs', q)

\* C32: no encoder run has the canonical output path of the item as its
\* output, the extracted bytes are not written to it, and the file at the
\* canonical path is at every moment a complete file that a rename or move
\* has put there.
C32_CanonicalPathOnlyByMove ==
    /\ [](\A i \in DOMAIN calls : calls[i].output # CanonicalPath)
    /\ [](Exists(fs, CanonicalPath) => fs[CanonicalPath].size = "full")
    /\ [][CanonicalPathWritten => (MovedToCanonicalPath /\ calls' = calls)]_vars

\* A first attempt left a partial file, a later attempt succeeded and its
\* result is at the canonical path.
C32_Witness ==
    /\ Exists(fs, CanonicalPath)
    /\ \E i, j \in DOMAIN calls :
          /\ i < j
          /\ calls[i].stage \in FinalStages /\ calls[i].outcome = "nonzero"
          /\ calls[j].stage \in FinalStages /\ calls[j].outcome = "ok"
          /\ fs[CanonicalPath].lineage # <<>>
          /\ fs[CanonicalPath].lineage[Len(fs[CanonicalPath].lineage)] = calls[j].stage

-----------------------------------------------------------------------------
(* C33 *)

\* C33: on a processor without acceleration (use_vaapi false) no encoder
\* run of process_annotation initialises the accelerator device, decodes in
\* hardware or encodes in hardware, whatever the source and target codecs.
C33_NoAccelerationWhenDisabled ==
    ~self.use_vaapi
    => \A i \in DOMAIN calls :
           /\ ~calls[i].hw_init
           /\ ~calls[i].hw_decode
           /\ ~calls[i].hw_encode

-----------------------------------------------------------------------------
(* C34 *)

-----------------------------------------------------------------------------
(* C35 *)

\* C35: in every record process_annotation returns, the content type and
\* the extension of the file agree: the extension of the returned path is
\* the one the format mapping gives for contentTypeDetected, after a
\* successful cascade, without a transcode, without an engine and after an
\* exhausted cascade.
C35_ContentTypeMatchesExtension ==
    Returned
    => ret.absolutePath.ext = _get_file_extension_from_mime(ret.contentTypeDetected)

-----------------------------------------------------------------------------
(* C36 *)

\* The extracted bytes were written and the call has not ended without a
\* record
HoldsMedia ==
    /\ pc \notin {"start", "raised"}
    /\ ~(pc = "done" /\ ret.isNone)

\* A complete file with the media of the item: the extracted bytes, or what
\* successful encoder runs have made of them
CompleteCopy(content) ==
    /\ content.size = "full"
    /\ \/ content = arg.stream_ref
       \/ /\ content.lineage # <<>>
          /\ IsVideo(content.mime)

\* C36: from the write of the extracted bytes until the record is returned,
\* the output directory holds at every step at least one complete file with
\* the media of the item; no failed stage, rename or cleanup removes the
\* last one.
C36_ACompleteCopyAlwaysExists ==
    HoldsMedia => \E p \in Files : CompleteCopy(fs[p])

\* Scaling and the three attempts of the cascade have failed, the rename to
\* the final name has failed too, and the record names the one file left.
C36_Witness ==
    /\ Returned
    /\ Cardinality(Files) = 1
    /\ Len(calls) >= 5
    /\ \A i \in DOMAIN calls : calls[i].outcome # "ok"
    /\ \E i \in DOMAIN renames : ~renames[i].ok
    /\ fs[ret.absolutePath] = arg.stream_ref

-----------------------------------------------------------------------------
(* C37 *)

\* A codec was requested that is not one of the allowed codecs
InvalidCodecRequested ==
    self.user_codec_choice # None /\ self.user_codec_choice \notin ALLOWED_VIDEO_CODECS

\* C37: a requested codec that is not allowed is replaced by the default
\* target codec and is no explicit override in the entry decision: an item
\* that is in a preferred format for its container is not encoded again.
C37_InvalidCodecIsNoOverride ==
    InvalidCodecRequested
    => /\ self.target_codec = DEFAULT_VIDEO_CODEC
       /\ (Decided /\ IsPreferredFormat(loc.ext_for_final_encode, loc.codec_for_final_encode))
          => CallsOf(CascadeStages) = {}

-----------------------------------------------------------------------------
(* C38 *)

\* C38: with transcoding switched off in the configuration no encoder is
\* run for the item, neither for the pre-resize nor for scaling, the
\* intermediate or a final encode, also when ffmpeg was found and the
\* source is larger than the pre-resize ceiling.
C38_NoEncoderWhenTranscodingDisabled ==
    ~config.ENABLE_TRANSCODING => calls = <<>>

-----------------------------------------------------------------------------
(* C39 *)

\* The order of the positions of process_annotation in its text
PcRank(p) ==
    CASE p = "start"             -> 0
      [] p = "identify"          -> 1
      [] p = "preresize_done"    -> 2
      [] p = "mime"              -> 3
      [] p = "check_video"       -> 4
      [] p = "scaling"           -> 5
      [] p = "scaling_done"      -> 6
      [] p = "decide"            -> 7
      [] p = "attempt1"          -> 8
      [] p = "attempt1_done"     -> 9
      [] p = "intermediate"      -> 10
      [] p = "intermediate_done" -> 11
      [] p = "attempt2"          -> 12
      [] p = "attempt2_done"     -> 13
      [] p = "cpu"               -> 14
      [] p = "cpu_done"          -> 15
      [] p = "update"            -> 16
      [] p = "no_transcode"      -> 16
      [] p = "cleanup"           -> 17
      [] p = "return"            -> 18
      [] p = "done"              -> 19
      [] p = "raised"            -> 19

\* The number of encoder runs of the call for the stages
Runs(stages) == Cardinality(CallsOf(stages))

\* C39: process_annotation ends on every input when each probe and encoder
\* returns: no step goes back to an earlier one, and the call runs at most
\* one pre-resize, one scaling, one intermediate encode and three final
\* encodes, each final attempt at most once.
C39_EndsWithBoundedRuns ==
    /\ <>(pc = "done")
    /\ [][PcRank(pc') > PcRank(pc)]_vars
    /\ [](/\ Runs({"preresize"}) <= 1
          /\ Runs({"scale"}) <= 1
          /\ Runs({"intermediate"}) <= 1
          /\ Runs(FinalStages) <= 3
          /\ \A stage \in FinalStages : Runs({stage}) <= 1
          /\ Len(calls) <= 6)

\* The call has ended after a pre-resize, a scaling, the intermediate and
\* the three final attempts.
C39_Witness ==
    /\ pc = "done"
    /\ Len(calls) = 6
    /\ Runs({"preresize"}) = 1 /\ Runs({"scale"}) = 1 /\ Runs({"intermediate"}) = 1
    /\ Runs(FinalStages) = 3

====
